---- MODULE Spec2Model ----
(***************************************************************************)
(* Fringe layout of neoscore staves: the per-staff modifier indices        *)
(* (clefs, key signatures, time signatures), the fringe layout computed by *)
(* Staff and by StaffGroup, and the caches both keep.                      *)
(*                                                                         *)
(* Lengths are integers counted in base units (Unit(1) = 1).  The staves   *)
(* are built with line_spacing = Unit(StaffUnit), so staff.unit(0.5) is    *)
(* StaffUnit \div 2 base units.                                            *)
(*                                                                         *)
(* An Optional value is a sequence: <<>> is None, <<v>> is the value v.    *)
(***************************************************************************)
EXTENDS Integers, Sequences, FiniteSets, TLC

\* ---------------------------------------------------------------- bounds
\* Modifier positions inside a staff range over 0..MaxPos.
MaxPos == 1
\* Glyph widths (font metrics, an external input) range over 1..MaxWidth.
MaxWidth == 2
\* Staff "s1" starts at flowable x = 0 or at flowable x = MaxStaffX.
MaxStaffX == 2
\* Layouts are asked for at NumLines line starts after the first of the
\* flowable, the i-th at flowable x = i * LineLength. Only the place of such
\* a line start enters a layout; the lines a staff is drawn on, with their
\* lengths, are those of flowable_lines.
NumLines == 1
LineLength == 1
\* At most MaxObjects modifiers are ever constructed, over all staves.
MaxObjects == 3
\* The flowable holds at most MaxControllers margin controllers before a
\* further layout pass is started.
MaxControllers == 1

\* ------------------------------------------------------------- constants
\* line_spacing of every staff, in base units: staff.unit(1)
StaffUnit == 4
\* Mutant of Staff_LEFT_PADDING: a whole staff unit.
Staff_LEFT_PADDING_WholeUnit == StaffUnit
\* Staff._LEFT_PADDING = 0.5 staff units
Staff_LEFT_PADDING == StaffUnit \div 2
\* Staff._TIME_SIG_PADDING = 0.5 staff units
Staff_TIME_SIG_PADDING == StaffUnit \div 2
\* Staff._KEY_SIG_LEFT_PADDING = 0.5 staff units
Staff_KEY_SIG_LEFT_PADDING == StaffUnit \div 2
\* StaffGroup.LEFT_PADDING = 0.5 staff units
LEFT_PADDING == StaffUnit \div 2
\* StaffGroup.RIGHT_PADDING = 1 staff unit
RIGHT_PADDING == StaffUnit
\* StaffGroup.TIME_SIG_LEFT_PADDING = 0.5 staff units
TIME_SIG_LEFT_PADDING == StaffUnit \div 2
\* StaffGroup.KEY_SIG_LEFT_PADDING = 0.5 staff units
KEY_SIG_LEFT_PADDING == StaffUnit \div 2

Staves == {"s1", "s2"}
\* The staff followed on its own.
Solo == {"s1"}
Kinds == {"clef", "key_signature", "time_signature"}
Positions == 0 .. MaxPos
Widths == 1 .. MaxWidth

None == <<>>
Some(v) == <<v>>

\* Break locations: None, or a NewLine identified by its flowable_x.
Lines == {Some(i * LineLength) : i \in 1 .. NumLines}
Locations == {None} \cup Lines

VARIABLES
    children,                   \* staff -> its modifier descendants, in tree order
    created,                    \* how many modifiers were constructed so far
    staff_flowable_x,           \* staff -> flowable.descendant_pos_x(staff)
    clef_x_positions,           \* staff -> Staff._clef_x_positions
    key_signature_x_positions,  \* staff -> Staff._key_signature_x_positions
    time_signature_x_positions, \* staff -> Staff._time_signature_x_positions
    fringe_layouts,             \* staff -> Staff._fringe_layouts
    staves,                     \* StaffGroup.staves
    fringe_layout_cache,        \* StaffGroup._fringe_layout_cache
    margin_controllers,         \* the flowable's margin controllers
    ret,                        \* the layout the last call returned, if it was a
                                \* fringe_layout_at call
    music_text,                 \* the MusicText object: its _music_chars and _text
    main_window,                \* the MainWindow: refresh_func and the pending timers
    time_signature_obj,         \* the TimeSignature object: its meter and glyph positions
    flowable_lines              \* flowable.lines: the lines the flowable was broken into

vars == <<children, created, staff_flowable_x, clef_x_positions, key_signature_x_positions,
          time_signature_x_positions, fringe_layouts, staves, fringe_layout_cache,
          margin_controllers, ret, music_text, main_window, time_signature_obj,
          flowable_lines>>

\* The objects that the staff operations do not touch.
others == <<music_text, main_window, time_signature_obj, flowable_lines>>

\* No such object was constructed yet.
ObjectsInit ==
    /\ music_text = <<>>
    /\ main_window = <<>>
    /\ time_signature_obj = <<>>

\* No such object was constructed yet and the flowable was not broken into
\* lines yet.
OthersInit ==
    /\ ObjectsInit
    /\ flowable_lines = <<>>

\* An attribute that was never assigned (getattr(..., None) reads it as None).
Unset == [set |-> FALSE, val |-> <<>>]
Stored(v) == [set |-> TRUE, val |-> v]

Max(S) == CHOOSE m \in S : \A n \in S : n <= m
Min(S) == CHOOSE m \in S : \A n \in S : m <= n
MinOf(a, b) == IF b < a THEN b ELSE a

\* ------------------------------------------------------ modifier indices

\* list.sort(key=lambda tup: tup[0]): a stable sort by position.
InsertByX(sorted, e) ==
    LET k == Cardinality({i \in 1 .. Len(sorted) : sorted[i].x <= e.x})
    IN SubSeq(sorted, 1, k) \o <<e>> \o SubSeq(sorted, k + 1, Len(sorted))

RECURSIVE SortByX(_)
SortByX(seq) ==
    IF seq = <<>> THEN <<>>
    ELSE InsertByX(SortByX(SubSeq(seq, 1, Len(seq) - 1)), seq[Len(seq)])

\* descendants_with_attribute(marker): the staff's descendants of one kind,
\* in tree order, as (position, object) pairs.
DescendantsOfKind(kids, kind) ==
    LET idx == {i \in 1 .. Len(kids) : kids[i].kind = kind}
        RECURSIVE Pick(_)
        Pick(S) == IF S = {} THEN <<>>
                   ELSE LET m == Max(S)
                        IN Append(Pick(S \ {m}), [x |-> kids[m].x, w |-> kids[m].w])
    IN Pick(idx)

\* The list a freshly built index holds.
ScanIndex(kids, kind) == SortByX(DescendantsOfKind(kids, kind))

\* What Staff.clefs / key_signatures / time_signatures returns: the cached
\* list when the attribute holds a non-empty list, else a fresh scan.
IndexValue(cache, kids, kind) ==
    IF cache.set /\ cache.val # <<>> THEN cache.val ELSE ScanIndex(kids, kind)

\* The attribute after the property was read.
IndexAfterRead(cache, kids, kind) == Stored(IndexValue(cache, kids, kind))

Clefs(s) == IndexValue(clef_x_positions[s], children[s], "clef")
KeySignatures(s) == IndexValue(key_signature_x_positions[s], children[s], "key_signature")
TimeSignatures(s) == IndexValue(time_signature_x_positions[s], children[s], "time_signature")

\* next((e for (x, e) in reversed(index) if x <= pos_x), None)
ActiveAt(index, pos_x) ==
    LET I == {i \in 1 .. Len(index) : index[i].x <= pos_x}
    IN IF I = {} THEN None ELSE Some(index[Max(I)])

\* Mutant of TimeSigAt: a time signature at or before pos_x counts, as for
\* clefs and key signatures.
TimeSigAtOrBefore(index, pos_x) ==
    LET I == {i \in 1 .. Len(index) : index[i].x <= pos_x}
    IN IF I = {} THEN None ELSE Some(index[Max(I)])

\* next((sig for x, sig in index if x == pos_x), None)
TimeSigAt(index, pos_x) ==
    LET I == {i \in 1 .. Len(index) : index[i].x = pos_x}
    IN IF I = {} THEN None ELSE Some(index[Min(I)])

\* ---------------------------------------------------------- fringe layout

\* StaffFringeLayout(pos_x_in_staff, staff, clef, key_signature, time_signature)
StaffFringeLayout(pos_x, staff_pos, clef_pos, key_sig_pos, time_sig_pos) ==
    [pos_x_in_staff |-> pos_x, staff |-> staff_pos, clef |-> clef_pos,
     key_signature |-> key_sig_pos, time_signature |-> time_sig_pos]

\* Mutant of FringeLayoutAtStaffPosX: the key signature's edge is recorded
\* after its left padding was subtracted.
FringeLayoutAtStaffPosX_KeySigEdgeAfterPadding(clefs, key_sigs, time_sigs, pos_x) ==
    LET clef == ActiveAt(clefs, pos_x)
        key_sig == ActiveAt(key_sigs, pos_x)
        time_sig == TimeSigAt(time_sigs, pos_x)
        x1 == IF time_sig # None
              THEN 0 - (time_sig[1].w + Staff_TIME_SIG_PADDING) ELSE 0
        x2 == IF time_sig # None THEN x1 - Staff_TIME_SIG_PADDING ELSE x1
        x4 == IF key_sig # None
              THEN x2 - key_sig[1].w - Staff_KEY_SIG_LEFT_PADDING ELSE x2
        x5 == IF clef # None THEN x4 - clef[1].w ELSE x4
    IN StaffFringeLayout(pos_x, x5 - Staff_LEFT_PADDING,
                         IF clef # None THEN Some(x5) ELSE None,
                         IF key_sig # None THEN Some(x4) ELSE None,
                         IF time_sig # None THEN Some(x1) ELSE None)

\* Staff._fringe_layout_at_staff_pos_x over the three indices as read.
FringeLayoutAtStaffPosX(clefs, key_sigs, time_sigs, pos_x) ==
    LET clef == ActiveAt(clefs, pos_x)
        key_sig == ActiveAt(key_sigs, pos_x)
        time_sig == TimeSigAt(time_sigs, pos_x)
        x0 == 0
        x1 == IF time_sig # None
              THEN x0 - (time_sig[1].w + Staff_TIME_SIG_PADDING) ELSE x0
        time_signature_fringe_pos == IF time_sig # None THEN Some(x1) ELSE None
        x2 == IF time_sig # None THEN x1 - Staff_TIME_SIG_PADDING ELSE x1
        x3 == IF key_sig # None THEN x2 - key_sig[1].w ELSE x2
        key_signature_fringe_pos == IF key_sig # None THEN Some(x3) ELSE None
        x4 == IF key_sig # None THEN x3 - Staff_KEY_SIG_LEFT_PADDING ELSE x3
        x5 == IF clef # None THEN x4 - clef[1].w ELSE x4
        clef_fringe_pos == IF clef # None THEN Some(x5) ELSE None
        staff_fringe_pos == x5 - Staff_LEFT_PADDING
    IN StaffFringeLayout(pos_x, staff_fringe_pos, clef_fringe_pos,
                         key_signature_fringe_pos, time_signature_fringe_pos)

\* The staff-relative position StaffGroup looks the modifiers up at.
GroupStaffPosX(location, staff_x) ==
    IF location # None
    THEN (IF location[1] - staff_x < 0 THEN 0 ELSE location[1] - staff_x)
    ELSE 0

\* StaffGroup._fringe_layout_for_isolated_staff over the three indices as
\* read: Some(layout), or None when evaluating clef.clef_type raises
\* AttributeError (no time signature here and no active clef).
FringeLayoutForIsolatedStaff(clefs, key_sigs, time_sigs, staff_x, location) ==
    LET staff_pos_x == GroupStaffPosX(location, staff_x)
        x0 == 0 - RIGHT_PADDING
        clef == ActiveAt(clefs, staff_pos_x)
        key_sig == ActiveAt(key_sigs, staff_pos_x)
        time_sig == TimeSigAt(time_sigs, staff_pos_x)
        x1 == IF time_sig # None THEN x0 - time_sig[1].w ELSE x0
        time_signature_fringe_pos == x1
        x2 == IF time_sig # None THEN x1 - TIME_SIG_LEFT_PADDING ELSE x1
        x3 == IF key_sig # None THEN x2 - key_sig[1].w ELSE x2
        key_signature_fringe_pos == IF key_sig # None THEN x3 ELSE x0
        x4 == IF key_sig # None THEN x3 - KEY_SIG_LEFT_PADDING ELSE x3
        x5 == IF clef # None THEN x4 - clef[1].w ELSE x4
        clef_fringe_pos == IF clef # None THEN x5 ELSE x0
        staff_fringe_pos == x5 - LEFT_PADDING
    IN IF time_sig = None /\ clef = None
       THEN None
       ELSE Some(StaffFringeLayout(staff_pos_x, staff_fringe_pos,
                                   Some(clef_fringe_pos),
                                   Some(key_signature_fringe_pos),
                                   Some(time_signature_fringe_pos)))

\* Mutant of AlignLayout: the time signature edge is shifted with the rest.
AlignLayout_ShiftsTimeSignature(layout, staff_basis) ==
    IF layout.staff = staff_basis THEN layout
    ELSE LET delta == staff_basis - layout.staff
         IN StaffFringeLayout(layout.pos_x_in_staff,
                              layout.staff + delta,
                              Some(layout.clef[1] + delta),
                              Some(layout.key_signature[1] + delta),
                              Some(layout.time_signature[1] + delta))

\* StaffGroup._align_layout
AlignLayout(layout, staff_basis) ==
    IF layout.staff = staff_basis THEN layout
    ELSE LET delta == staff_basis - layout.staff
         IN StaffFringeLayout(layout.pos_x_in_staff,
                              layout.staff + delta,
                              Some(layout.clef[1] + delta),
                              Some(layout.key_signature[1] + delta),
                              layout.time_signature)

\* ------------------------------------------------------------------ state

\* The outcome of a fringe_layout_at call: out is Some(layout), or None when
\* the call raised.
Ret(op, s, location, out) ==
    [op |-> op, staff |-> s, location |-> location, raised |-> out = None, out |-> out]

\* The last operation was no fringe_layout_at call.
NoRet == [op |-> "none", staff |-> "s1", location |-> None, raised |-> FALSE, out |-> None]

NoLayouts == [l \in Lines |-> None]

\* The staves after construction, before any modifier was added.
StaffInit ==
    /\ children = [s \in Staves |-> <<>>]
    /\ created = 0
    /\ staff_flowable_x \in {[s \in Staves |-> IF s = "s1" THEN x ELSE 0] :
                                x \in {0, MaxStaffX}}
    /\ clef_x_positions = [s \in Staves |-> Unset]
    /\ key_signature_x_positions = [s \in Staves |-> Unset]
    /\ time_signature_x_positions = [s \in Staves |-> Unset]
    /\ fringe_layouts = [s \in Staves |-> NoLayouts]
    /\ staves = <<>>
    /\ fringe_layout_cache = [k \in Staves \X Locations |-> None]
    /\ margin_controllers = <<>>
    /\ ret = NoRet

Init == StaffInit /\ OthersInit

\* --------------------------------------------------- reading the indices

\* Staff.clefs
ReadClefs(s) ==
    /\ clef_x_positions' =
           [clef_x_positions EXCEPT ![s] = IndexAfterRead(@, children[s], "clef")]
    /\ ret' = NoRet
    /\ UNCHANGED <<others, children, created, staff_flowable_x, key_signature_x_positions,
                   time_signature_x_positions, fringe_layouts, staves,
                   fringe_layout_cache, margin_controllers>>

\* Staff.key_signatures
ReadKeySignatures(s) ==
    /\ key_signature_x_positions' =
           [key_signature_x_positions EXCEPT
               ![s] = IndexAfterRead(@, children[s], "key_signature")]
    /\ ret' = NoRet
    /\ UNCHANGED <<others, children, created, staff_flowable_x, clef_x_positions,
                   time_signature_x_positions, fringe_layouts, staves,
                   fringe_layout_cache, margin_controllers>>

\* Staff.time_signatures
ReadTimeSignatures(s) ==
    /\ time_signature_x_positions' =
           [time_signature_x_positions EXCEPT
               ![s] = IndexAfterRead(@, children[s], "time_signature")]
    /\ ret' = NoRet
    /\ UNCHANGED <<others, children, created, staff_flowable_x, clef_x_positions,
                   key_signature_x_positions, fringe_layouts, staves,
                   fringe_layout_cache, margin_controllers>>

\* Staff.active_clef_at(pos_x)
ActiveClefAt(s, pos_x) ==
    /\ clef_x_positions' =
           [clef_x_positions EXCEPT ![s] = IndexAfterRead(@, children[s], "clef")]
    /\ ret' = NoRet
    /\ UNCHANGED <<others, children, created, staff_flowable_x, key_signature_x_positions,
                   time_signature_x_positions, fringe_layouts, staves,
                   fringe_layout_cache, margin_controllers>>

\* Staff.active_key_signature_at(pos_x)
ActiveKeySignatureAt(s, pos_x) ==
    /\ key_signature_x_positions' =
           [key_signature_x_positions EXCEPT
               ![s] = IndexAfterRead(@, children[s], "key_signature")]
    /\ ret' = NoRet
    /\ UNCHANGED <<others, children, created, staff_flowable_x, clef_x_positions,
                   time_signature_x_positions, fringe_layouts, staves,
                   fringe_layout_cache, margin_controllers>>

\* The three index attributes of the staves in S after each was read, the
\* staff's descendants being kids[s].
ClefsAfterRead(S, kids) ==
    [s \in Staves |-> IF s \in S
                      THEN IndexAfterRead(clef_x_positions[s], kids[s], "clef")
                      ELSE clef_x_positions[s]]
KeySignaturesAfterRead(S, kids) ==
    [s \in Staves |-> IF s \in S
                      THEN IndexAfterRead(key_signature_x_positions[s], kids[s],
                                          "key_signature")
                      ELSE key_signature_x_positions[s]]
TimeSignaturesAfterRead(S, kids) ==
    [s \in Staves |-> IF s \in S
                      THEN IndexAfterRead(time_signature_x_positions[s], kids[s],
                                          "time_signature")
                      ELSE time_signature_x_positions[s]]

\* ------------------------------------------------- Staff.fringe_layout_at

\* Staff._fringe_layout_at_staff_pos_x(pos_x) on staff s with descendants kids.
StaffLayoutAtPos(s, kids, pos_x) ==
    FringeLayoutAtStaffPosX(
        IndexValue(clef_x_positions[s], kids, "clef"),
        IndexValue(key_signature_x_positions[s], kids, "key_signature"),
        IndexValue(time_signature_x_positions[s], kids, "time_signature"),
        pos_x)

\* location.flowable_x - self.flowable.descendant_pos_x(self)
LineStaffPosX(location, staff_x) == location[1] - staff_x

\* Mutant of FringeLayoutAt: the layout stored for the line is the one
\* computed at the position clamped to zero, not the one returned.
FringeLayoutAt_CachesClampedLayout(s, location) ==
    /\ IF location # None /\ fringe_layouts[s][location] # None
       THEN /\ ret' = Ret("fringe_layout_at", s, location, fringe_layouts[s][location])
            /\ UNCHANGED <<clef_x_positions, key_signature_x_positions,
                           time_signature_x_positions, fringe_layouts>>
       ELSE LET pos_x == IF location # None
                         THEN LineStaffPosX(location, staff_flowable_x[s])
                         ELSE 0
                layout == StaffLayoutAtPos(s, children[s], pos_x)
                clamped == StaffLayoutAtPos(s, children[s], IF pos_x < 0 THEN 0 ELSE pos_x)
            IN /\ clef_x_positions' = ClefsAfterRead({s}, children)
               /\ key_signature_x_positions' = KeySignaturesAfterRead({s}, children)
               /\ time_signature_x_positions' = TimeSignaturesAfterRead({s}, children)
               /\ fringe_layouts' =
                      IF location # None
                      THEN [fringe_layouts EXCEPT ![s][location] = Some(clamped)]
                      ELSE fringe_layouts
               /\ ret' = Ret("fringe_layout_at", s, location, Some(layout))
    /\ UNCHANGED <<others, children, created, staff_flowable_x, staves, fringe_layout_cache,
                   margin_controllers>>

\* Staff.fringe_layout_at(location)
FringeLayoutAt(s, location) ==
    /\ IF location # None /\ fringe_layouts[s][location] # None
       THEN /\ ret' = Ret("fringe_layout_at", s, location, fringe_layouts[s][location])
            /\ UNCHANGED <<clef_x_positions, key_signature_x_positions,
                           time_signature_x_positions, fringe_layouts>>
       ELSE LET pos_x == IF location # None
                         THEN LineStaffPosX(location, staff_flowable_x[s])
                         ELSE 0
                layout == StaffLayoutAtPos(s, children[s], pos_x)
            IN /\ clef_x_positions' = ClefsAfterRead({s}, children)
               /\ key_signature_x_positions' = KeySignaturesAfterRead({s}, children)
               /\ time_signature_x_positions' = TimeSignaturesAfterRead({s}, children)
               /\ fringe_layouts' =
                      IF location # None
                      THEN [fringe_layouts EXCEPT ![s][location] = Some(layout)]
                      ELSE fringe_layouts
               /\ ret' = Ret("fringe_layout_at", s, location, Some(layout))
    /\ UNCHANGED <<others, children, created, staff_flowable_x, staves, fringe_layout_cache,
                   margin_controllers>>

\* -------------------------------------------- StaffGroup.fringe_layout_at

Members == {staves[i] : i \in 1 .. Len(staves)}

\* _fringe_layout_for_isolated_staff(staff, location) on the staff's indices
\* as they read now.
IsolatedLayout(s, location) ==
    FringeLayoutForIsolatedStaff(Clefs(s), KeySignatures(s), TimeSignatures(s),
                                 staff_flowable_x[s], location)

\* Mutant of MinStaffBasis: the running minimum is forgotten, the basis is
\* min(ZERO, layout.staff) of the last layout alone.
MinStaffBasis_LastLayoutOnly(layouts) ==
    IF layouts = <<>> THEN 0 ELSE MinOf(0, layouts[Len(layouts)].staff)

\* min_staff_basis after the loop over the isolated layouts: ZERO, lowered
\* by min(min_staff_basis, layout.staff) for each layout in turn.
RECURSIVE MinStaffBasis(_)
MinStaffBasis(layouts) ==
    IF layouts = <<>> THEN 0
    ELSE MinOf(MinStaffBasis(SubSeq(layouts, 1, Len(layouts) - 1)),
               layouts[Len(layouts)].staff)

\* StaffGroup.fringe_layout_at(staff, location)
GroupFringeLayoutAt(s, location) ==
    /\ IF fringe_layout_cache[<<s, location>>] # None
       THEN /\ ret' = Ret("group_fringe_layout_at", s, location,
                          fringe_layout_cache[<<s, location>>])
            /\ UNCHANGED <<clef_x_positions, key_signature_x_positions,
                           time_signature_x_positions, fringe_layout_cache>>
       ELSE LET n == Len(staves)
                \* each member's isolated layout, None where computing it raises
                attempts == [i \in 1 .. n |-> IsolatedLayout(staves[i], location)]
                raising == {i \in 1 .. n : attempts[i] = None}
                visited == IF raising = {} THEN Members
                           ELSE {staves[i] : i \in 1 .. Min(raising)}
                isolated_layouts == [i \in 1 .. n |-> attempts[i][1]]
                min_staff_basis == MinStaffBasis(isolated_layouts)
                aligned == [i \in 1 .. n |->
                               AlignLayout(isolated_layouts[i], min_staff_basis)]
                new_cache == [k \in Staves \X Locations |->
                                 IF k[1] \in Members /\ k[2] = location
                                 THEN Some(aligned[CHOOSE i \in 1 .. n : staves[i] = k[1]])
                                 ELSE fringe_layout_cache[k]]
            IN /\ clef_x_positions' = ClefsAfterRead(visited, children)
               /\ key_signature_x_positions' = KeySignaturesAfterRead(visited, children)
               /\ time_signature_x_positions' = TimeSignaturesAfterRead(visited, children)
               /\ IF raising # {}
                  THEN \* AttributeError out of an isolated layout: nothing is cached
                       /\ fringe_layout_cache' = fringe_layout_cache
                       /\ ret' = Ret("group_fringe_layout_at", s, location, None)
                  ELSE /\ fringe_layout_cache' = new_cache
                       /\ ret' = IF s \in Members
                                 THEN Ret("group_fringe_layout_at", s, location,
                                          new_cache[<<s, location>>])
                                 ELSE \* KeyError: the staff is not in self.staves
                                      Ret("group_fringe_layout_at", s, location, None)
    /\ UNCHANGED <<others, children, created, staff_flowable_x, fringe_layouts, staves, margin_controllers>>

\* StaffGroup.staves.append(staff)
GroupAddStaff(s) ==
    /\ s \notin Members
    /\ staves' = Append(staves, s)
    /\ ret' = NoRet
    /\ UNCHANGED <<others, children, created, staff_flowable_x, clef_x_positions,
                   key_signature_x_positions, time_signature_x_positions,
                   fringe_layouts, fringe_layout_cache, margin_controllers>>

\* ------------------------------------------------- changing a staff's content

Modifier(kind, x, w) == [kind |-> kind, x |-> x, w |-> w]

\* Clef(pos_x, staff, ...): the clef becomes a child of the staff.
AddClef(s, x, w) ==
    /\ created < MaxObjects
    /\ created' = created + 1
    /\ children' = [children EXCEPT ![s] = Append(@, Modifier("clef", x, w))]
    /\ ret' = NoRet
    /\ UNCHANGED <<others, staff_flowable_x, clef_x_positions, key_signature_x_positions,
                   time_signature_x_positions, fringe_layouts, staves,
                   fringe_layout_cache, margin_controllers>>

\* KeySignature(pos_x, staff, ...): the key signature becomes a child of the staff.
AddKeySignature(s, x, w) ==
    /\ created < MaxObjects
    /\ created' = created + 1
    /\ children' = [children EXCEPT ![s] = Append(@, Modifier("key_signature", x, w))]
    /\ ret' = NoRet
    /\ UNCHANGED <<others, staff_flowable_x, clef_x_positions, key_signature_x_positions,
                   time_signature_x_positions, fringe_layouts, staves,
                   fringe_layout_cache, margin_controllers>>

\* TimeSignature.__init__(pos_x, staff, meter): the time signature becomes a
\* child of the staff, then _position_glyphs runs; at staff x = 0 it calls
\* staff.fringe_layout_at(None) and adds the layout's time_signature edge to
\* the glyph positions (a TypeError when that edge is None).
AddTimeSignature(s, x, w) ==
    /\ created < MaxObjects
    /\ created' = created + 1
    /\ LET kids == [children EXCEPT ![s] = Append(@, Modifier("time_signature", x, w))]
           layout == StaffLayoutAtPos(s, kids[s], 0)
       IN /\ children' = kids
          /\ IF x = 0
             THEN /\ clef_x_positions' = ClefsAfterRead({s}, kids)
                  /\ key_signature_x_positions' = KeySignaturesAfterRead({s}, kids)
                  /\ time_signature_x_positions' = TimeSignaturesAfterRead({s}, kids)
                  /\ ret' = NoRet
             ELSE /\ UNCHANGED <<clef_x_positions, key_signature_x_positions,
                                 time_signature_x_positions>>
                  /\ ret' = NoRet
    /\ UNCHANGED <<others, staff_flowable_x, fringe_layouts, staves, fringe_layout_cache,
                   margin_controllers>>

\* modifier.remove(): the i-th modifier of the staff leaves the tree.
RemoveModifier(s, i) ==
    /\ i \in 1 .. Len(children[s])
    /\ children' = [children EXCEPT
                       ![s] = SubSeq(@, 1, i - 1) \o SubSeq(@, i + 1, Len(@))]
    /\ ret' = NoRet
    /\ UNCHANGED <<others, created, staff_flowable_x, clef_x_positions, key_signature_x_positions,
                   time_signature_x_positions, fringe_layouts, staves,
                   fringe_layout_cache, margin_controllers>>

\* modifier.x = x: the i-th modifier of the staff moves.
MoveModifier(s, i, x) ==
    /\ i \in 1 .. Len(children[s])
    /\ children[s][i].x # x
    /\ children' = [children EXCEPT ![s][i].x = x]
    /\ ret' = NoRet
    /\ UNCHANGED <<others, created, staff_flowable_x, clef_x_positions, key_signature_x_positions,
                   time_signature_x_positions, fringe_layouts, staves,
                   fringe_layout_cache, margin_controllers>>

\* -------------------------------------------------- Staff.pre_render_hook

MarginController(x, w, tag) == [x |-> x, w |-> w, tag |-> tag]

RECURSIVE TimeSignatureControllers(_, _)
TimeSignatureControllers(sigs, staff_x) ==
    IF sigs = <<>> THEN <<>>
    ELSE <<MarginController(staff_x + sigs[1].x,
                            sigs[1].w + Staff_TIME_SIG_PADDING * 2,
                            "neoscore_time_signature"),
           MarginController(staff_x + sigs[1].x + 1, 0, "neoscore_time_signature")>>
         \o TimeSignatureControllers(Tail(sigs), staff_x)

\* Staff._register_layout_controllers, called by Staff.pre_render_hook.
PreRenderHook(s) ==
    /\ Len(margin_controllers) < MaxControllers
    /\ LET staff_x == staff_flowable_x[s]
           for_staff == <<MarginController(staff_x, Staff_LEFT_PADDING, "neoscore_staff")>>
           clefs == clef_x_positions[s].val
           for_clefs == [i \in 1 .. Len(clefs) |->
                            MarginController(staff_x + clefs[i].x, clefs[i].w,
                                             "neoscore_clef")]
           key_sigs == KeySignatures(s)
           for_key_sigs == [i \in 1 .. Len(key_sigs) |->
                               MarginController(staff_x + key_sigs[i].x,
                                                key_sigs[i].w + Staff_KEY_SIG_LEFT_PADDING,
                                                "neoscore_key_signature")]
           for_time_sigs == TimeSignatureControllers(
                                DescendantsOfKind(children[s], "time_signature"), staff_x)
       IN IF ~clef_x_positions[s].set
          THEN \* self._clef_x_positions was never assigned: AttributeError
               /\ margin_controllers' = margin_controllers \o for_staff
               /\ ret' = NoRet
               /\ UNCHANGED key_signature_x_positions
          ELSE /\ margin_controllers' = margin_controllers \o for_staff \o for_clefs
                                            \o for_key_sigs \o for_time_sigs
               /\ key_signature_x_positions' = KeySignaturesAfterRead({s}, children)
               /\ ret' = NoRet
    /\ UNCHANGED <<others, children, created, staff_flowable_x, clef_x_positions,
                   time_signature_x_positions, fringe_layouts, staves,
                   fringe_layout_cache>>

\* ---------------------------------------------------------- specification

QueryPositions == (0 - 1) .. (MaxPos + 1)

\* One staff on its own: modifiers are added to it, its indices and its
\* layouts are read, a layout pass is started.
Next ==
    \/ \E s \in Solo : ReadClefs(s)
    \/ \E s \in Solo : ReadKeySignatures(s)
    \/ \E s \in Solo : ReadTimeSignatures(s)
    \/ \E s \in Solo, x \in QueryPositions : ActiveClefAt(s, x)
    \/ \E s \in Solo, x \in QueryPositions : ActiveKeySignatureAt(s, x)
    \/ \E s \in Solo, l \in Locations : FringeLayoutAt(s, l)
    \/ \E s \in Solo, x \in Positions, w \in Widths : AddClef(s, x, w)
    \/ \E s \in Solo, x \in Positions, w \in Widths : AddKeySignature(s, x, w)
    \/ \E s \in Solo, x \in Positions, w \in Widths : AddTimeSignature(s, x, w)
    \/ \E s \in Solo : PreRenderHook(s)

Spec == Init /\ [][Next]_vars

\* One staff being edited: modifiers are added, removed and moved, its
\* indices are read, a layout pass is started.
EditNext ==
    \/ \E s \in Solo : ReadClefs(s)
    \/ \E s \in Solo : ReadKeySignatures(s)
    \/ \E s \in Solo : ReadTimeSignatures(s)
    \/ \E s \in Solo, x \in Positions, w \in Widths : AddClef(s, x, w)
    \/ \E s \in Solo, x \in Positions, w \in Widths : AddKeySignature(s, x, w)
    \/ \E s \in Solo, x \in Positions, w \in Widths : AddTimeSignature(s, x, w)
    \/ \E s \in Solo, i \in 1 .. MaxObjects : RemoveModifier(s, i)
    \/ \E s \in Solo, i \in 1 .. MaxObjects, x \in Positions : MoveModifier(s, i, x)
    \/ \E s \in Solo : PreRenderHook(s)

EditSpec == Init /\ [][EditNext]_vars

\* The staves of a staff group, "s1" starting at flowable x = MaxStaffX and
\* "s2" at 0: modifiers are added, staves join the group, the group is asked
\* for aligned layouts.
GroupInit == Init /\ staff_flowable_x["s1"] = MaxStaffX

GroupNext ==
    \/ \E s \in Staves, l \in Locations : GroupFringeLayoutAt(s, l)
    \/ \E s \in Staves : GroupAddStaff(s)
    \/ \E s \in Staves, x \in Positions, w \in Widths : AddClef(s, x, w)
    \/ \E s \in Staves, x \in Positions, w \in Widths : AddKeySignature(s, x, w)
    \/ \E s \in Staves, x \in Positions, w \in Widths : AddTimeSignature(s, x, w)

GroupSpec == GroupInit /\ [][GroupNext]_vars

\* The same group, left alone once it has answered a query: the staves are
\* filled and join the group only while the group has cached no layout.
NothingCached == \A k \in Staves \X Locations : fringe_layout_cache[k] = None

StableGroupNext ==
    \/ \E s \in Staves, l \in Locations : GroupFringeLayoutAt(s, l)
    \/ NothingCached /\ \E s \in Staves : GroupAddStaff(s)
    \/ NothingCached /\ \E s \in Staves, x \in Positions, w \in Widths : AddClef(s, x, w)
    \/ NothingCached /\ \E s \in Staves, x \in Positions, w \in Widths :
                            AddKeySignature(s, x, w)
    \/ NothingCached /\ \E s \in Staves, x \in Positions, w \in Widths :
                            AddTimeSignature(s, x, w)

StableGroupSpec == GroupInit /\ [][StableGroupNext]_vars

\* The group and the staff "s1" asked for layouts again and again: the staves
\* are filled and join the group only while neither a staff nor the group
\* has cached a layout.
NoStaffLayoutCached == \A s \in Staves, l \in Lines : fringe_layouts[s][l] = None

RequestNext ==
    \/ \E s \in Staves, l \in Locations : GroupFringeLayoutAt(s, l)
    \/ \E s \in Solo, l \in Locations : FringeLayoutAt(s, l)
    \/ NothingCached /\ NoStaffLayoutCached /\ \E s \in Staves : GroupAddStaff(s)
    \/ NothingCached /\ NoStaffLayoutCached
           /\ \E s \in Staves, x \in Positions, w \in Widths : AddClef(s, x, w)
    \/ NothingCached /\ NoStaffLayoutCached
           /\ \E s \in Staves, x \in Positions, w \in Widths : AddKeySignature(s, x, w)
    \/ NothingCached /\ NoStaffLayoutCached
           /\ \E s \in Staves, x \in Positions, w \in Widths : AddTimeSignature(s, x, w)

RequestSpec == GroupInit /\ [][RequestNext]_vars

\* ------------------------------------------------------------ properties

\* The entries of an index.
Entries(index) == {index[i] : i \in 1 .. Len(index)}

\* out is the entry of the index with the greatest position <= pos_x, or
\* None when the index has no entry at or before pos_x.
IsGreatestAtOrBefore(index, pos_x, out) ==
    IF \E e \in Entries(index) : e.x <= pos_x
    THEN /\ out # None
         /\ out[1] \in Entries(index)
         /\ out[1].x <= pos_x
         /\ \A e \in Entries(index) : e.x <= pos_x => e.x <= out[1].x
    ELSE out = None

\* C2: for every position x, active_clef_at(x) returns the clef with the
\* greatest position <= x among the clefs that are descendants of the staff
\* (a clef exactly at x counts), and None when the staff has no clef at or
\* before x; active_key_signature_at(x) does the same over the staff's key
\* signatures.
C2_ActiveModifierIsLatestAtOrBefore ==
    \A s \in Solo, x \in QueryPositions :
        /\ IsGreatestAtOrBefore(ScanIndex(children[s], "clef"), x,
                                ActiveAt(Clefs(s), x))
        /\ IsGreatestAtOrBefore(ScanIndex(children[s], "key_signature"), x,
                                ActiveAt(KeySignatures(s), x))

\* C3: whatever was added, removed or moved, and whether or not a layout
\* pass was started, the next read of each modifier index lists exactly the
\* staff's current descendants of that kind at their current positions, in
\* ascending order.
C3_IndexListsCurrentDescendants ==
    \A s \in Solo :
        /\ Clefs(s) = ScanIndex(children[s], "clef")
        /\ KeySignatures(s) = ScanIndex(children[s], "key_signature")
        /\ TimeSignatures(s) = ScanIndex(children[s], "time_signature")

\* Half a staff unit, the padding the fringe scenarios are stated with.
HalfUnit == StaffUnit \div 2

\* The staff's indices list one clef, at x = 0, and nothing else.
OnlyClefAtZero(s) ==
    /\ Len(Clefs(s)) = 1
    /\ Clefs(s)[1].x = 0
    /\ KeySignatures(s) = <<>>
    /\ TimeSignatures(s) = <<>>

\* C7: for a staff whose only modifier is a clef at x = 0 (its only
\* descendant, or the only entry its modifier indices list),
\* fringe_layout_at(None) returns clef = -clef_width,
\* staff = -(clef_width + 0.5 staff units), no key_signature edge and no
\* time_signature edge.
C7_ClefOnlyLayout ==
    /\ (ret.op = "fringe_layout_at" /\ ret.location = None /\ OnlyClefAtZero(ret.staff))
           => ret.out = Some([pos_x_in_staff |-> 0,
                              staff |-> 0 - (Clefs(ret.staff)[1].w + HalfUnit),
                              clef |-> Some(0 - Clefs(ret.staff)[1].w),
                              key_signature |-> None,
                              time_signature |-> None])
    /\ \A clef_width \in Widths :
           (/\ ret.op = "fringe_layout_at"
            /\ ret.location = None
            /\ children[ret.staff] = <<Modifier("clef", 0, clef_width)>>)
               => ret.out = Some([pos_x_in_staff |-> 0,
                                  staff |-> 0 - (clef_width + HalfUnit),
                                  clef |-> Some(0 - clef_width),
                                  key_signature |-> None,
                                  time_signature |-> None])

\* C7 witness: fringe_layout_at(None) has just returned for a staff holding
\* only a clef of width 2 at x = 0.
C7_Witness ==
    /\ ret.op = "fringe_layout_at"
    /\ ret.location = None
    /\ children[ret.staff] = <<Modifier("clef", 0, 2)>>
    /\ OnlyClefAtZero(ret.staff)
    /\ ret.out[1].staff = 0 - (2 + HalfUnit)

\* The layout of C7: what a clef of width clef_w alone gives.
ClefOnlyStaffEdge(clef_w) == 0 - (clef_w + HalfUnit)
ClefOnlyClefEdge(clef_w) == 0 - clef_w

\* C8 as stated: whenever a clef and a key signature are active at the break
\* position, Staff's layout has key_signature = -key_sig_width, and its staff
\* and clef edges lie key_sig_width + 0.5 staff units left of the clef-only
\* layout's.
C8_KeySignatureShift_AsStated ==
    \A s \in Solo, p \in QueryPositions :
        LET clef == ActiveAt(Clefs(s), p)
            key_sig == ActiveAt(KeySignatures(s), p)
            layout == StaffLayoutAtPos(s, children[s], p)
        IN (clef # None /\ key_sig # None)
               => /\ layout.key_signature = Some(0 - key_sig[1].w)
                  /\ layout.staff = ClefOnlyStaffEdge(clef[1].w) - (key_sig[1].w + HalfUnit)
                  /\ layout.clef = Some(ClefOnlyClefEdge(clef[1].w) - (key_sig[1].w + HalfUnit))

\* C8 amended: whenever a clef and a key signature are active at the break
\* position and no time signature lies exactly at it, Staff's layout has
\* key_signature = -key_sig_width, and its staff and clef edges lie
\* key_sig_width + 0.5 staff units left of the clef-only layout's.
C8_KeySignatureShift ==
    \A s \in Solo, p \in QueryPositions :
        LET clef == ActiveAt(Clefs(s), p)
            key_sig == ActiveAt(KeySignatures(s), p)
            layout == StaffLayoutAtPos(s, children[s], p)
        IN (/\ clef # None
            /\ key_sig # None
            /\ \A e \in Entries(TimeSignatures(s)) : e.x # p)
               => /\ layout.key_signature = Some(0 - key_sig[1].w)
                  /\ layout.staff = ClefOnlyStaffEdge(clef[1].w) - (key_sig[1].w + HalfUnit)
                  /\ layout.clef = Some(ClefOnlyClefEdge(clef[1].w) - (key_sig[1].w + HalfUnit))

\* C8 witness: fringe_layout_at(None) has just returned for a staff with a
\* clef of width 1 and a key signature of width 2 at x = 0 and a time
\* signature further right: key_signature = -2, clef = -5, staff = -7.
C8_Witness ==
    /\ ret.op = "fringe_layout_at"
    /\ ret.location = None
    /\ Modifier("clef", 0, 1) \in Entries(children[ret.staff])
    /\ Modifier("key_signature", 0, 2) \in Entries(children[ret.staff])
    /\ \E e \in Entries(TimeSignatures(ret.staff)) : e.x > 0
    /\ ret.out = Some([pos_x_in_staff |-> 0, staff |-> 0 - 7, clef |-> Some(0 - 5),
                       key_signature |-> Some(0 - 2), time_signature |-> None])

\* C10: a layout asked for at a line that starts before the staff does is
\* computed at staff position 0, never at a negative position, by
\* Staff.fringe_layout_at as by StaffGroup.fringe_layout_at, so that a clef
\* the staff's index lists at x = 0 gets its edge in that layout.
C10_PositionClampedToZero ==
    (/\ ret.op \in {"fringe_layout_at", "group_fringe_layout_at"}
     /\ ~ret.raised
     /\ ret.location # None
     /\ ret.location[1] < staff_flowable_x[ret.staff])
        => /\ ret.out[1].pos_x_in_staff = 0
           /\ (\E e \in Entries(Clefs(ret.staff)) : e.x = 0) => ret.out[1].clef # None


\* ------------------------------------------------- staff group properties

\* The staff edge of a member's isolated layout, and the least over the group.
IsolatedStaffEdge(s, location) == IsolatedLayout(s, location)[1].staff
LeastIsolatedStaffEdge(location) ==
    Min({IsolatedStaffEdge(m, location) : m \in Members})

\* The layout the group has cached for a staff at a location.
Cached(s, location) == fringe_layout_cache[<<s, location>>]

\* C1: in a group whose member list and staves are left unchanged once it
\* answers queries, the layouts returned for (and cached for) any two members
\* at one location have the same staff edge, the least of the members'
\* isolated staff edges, whichever member was asked for first.
C1_SharedStaffEdge ==
    /\ \A l \in Locations, a \in Members :
           Cached(a, l) # None
               => /\ \A m \in Members : IsolatedLayout(m, l) # None
                  /\ \A b \in Members : Cached(b, l) # None
                  /\ Cached(a, l)[1].staff = LeastIsolatedStaffEdge(l)
    /\ (ret.op = "group_fringe_layout_at" /\ ~ret.raised)
           => /\ ret.out = Cached(ret.staff, ret.location)
              /\ ret.out[1].staff = LeastIsolatedStaffEdge(ret.location)

\* C1 witness: both staves are members with different isolated staff edges,
\* the narrower one was asked for, and both have their aligned layout cached.
C1_Witness ==
    /\ Members = Staves
    /\ ret.op = "group_fringe_layout_at"
    /\ ~ret.raised
    /\ \A m \in Members : Cached(m, ret.location) # None
    /\ \E m \in Members :
           IsolatedStaffEdge(m, ret.location) < IsolatedStaffEdge(ret.staff, ret.location)

\* C6: alignment shifts a member's staff, clef and key_signature edges by one
\* delta, the shared basis minus the member's isolated staff edge, and leaves
\* its time_signature edge and pos_x_in_staff as in the isolated layout; a
\* member whose isolated staff edge is the basis keeps its isolated layout.
C6_AlignmentShift ==
    \A l \in Locations, s \in Members :
        Cached(s, l) # None
            => LET isolated == IsolatedLayout(s, l)[1]
                   aligned == Cached(s, l)[1]
                   delta == LeastIsolatedStaffEdge(l) - isolated.staff
               IN /\ aligned.staff = isolated.staff + delta
                  /\ aligned.clef = Some(isolated.clef[1] + delta)
                  /\ aligned.key_signature = Some(isolated.key_signature[1] + delta)
                  /\ aligned.time_signature = isolated.time_signature
                  /\ aligned.pos_x_in_staff = isolated.pos_x_in_staff
                  /\ (delta = 0 => aligned = isolated)

\* C6 witness: a member with a time signature at the break position was
\* shifted left by a non-zero delta, while the other member kept its
\* isolated layout.
C6_Witness ==
    \E l \in Locations, s \in Members, m \in Members :
        /\ Cached(s, l) # None
        /\ Cached(m, l) # None
        /\ Cached(s, l)[1].staff < IsolatedStaffEdge(s, l)
        /\ \E e \in Entries(TimeSignatures(s)) : e.x = Cached(s, l)[1].pos_x_in_staff
        /\ Cached(m, l) = IsolatedLayout(m, l)

\* What the group computes for a staff at a location from the members'
\* indices as they read now: None when a member's isolated layout raises.
GroupLayoutNow(s, location) ==
    IF \E m \in Members : IsolatedLayout(m, location) = None
    THEN None
    ELSE Some(AlignLayout(IsolatedLayout(s, location)[1],
                          MinOf(0, LeastIsolatedStaffEdge(location))))

\* C4: once every member has a cached layout at a location, a later change
\* of a member's modifier index drops them all: the layout a query returns
\* for a member is the one computed from the members' indices as they are.
C4_ReturnedLayoutIsCurrent ==
    (/\ ret.op = "group_fringe_layout_at"
     /\ ~ret.raised
     /\ \A m \in Members : Cached(m, ret.location) # None)
        => ret.out = GroupLayoutNow(ret.staff, ret.location)

\* C5: a layout is returned for every member staff, and in a returned layout
\* (Staff's or StaffGroup's) a layer with no active element at the layout's
\* position has no edge: the field is None.
C5_InactiveLayerHasNoEdge ==
    /\ (ret.op = "group_fringe_layout_at" /\ ret.staff \in Members) => ~ret.raised
    /\ (ret.op \in {"fringe_layout_at", "group_fringe_layout_at"} /\ ~ret.raised)
           => LET layout == ret.out[1]
                  p == layout.pos_x_in_staff
              IN /\ (\A e \in Entries(Clefs(ret.staff)) : e.x > p)
                         => layout.clef = None
                 /\ (\A e \in Entries(KeySignatures(ret.staff)) : e.x > p)
                         => layout.key_signature = None
                 /\ (\A e \in Entries(TimeSignatures(ret.staff)) : e.x # p)
                         => layout.time_signature = None

\* The places of an index's entries lying exactly at pos_x.
PlacesAt(index, pos_x) == {i \in 1 .. Len(index) : index[i].x = pos_x}

\* The width of the first entry of an index lying exactly at pos_x.
WidthOfFirstAt(index, pos_x) == index[Min(PlacesAt(index, pos_x))].w

\* C9 as stated: in Staff's layout and in StaffGroup's isolated layout alike,
\* the time signatures contribute nothing unless one lies exactly at the break
\* position, and then the time_signature edge is the running position (zero
\* for Staff, minus the right padding for StaffGroup) minus the time
\* signature's width minus the time-signature padding.
C9_TimeSignatureEdge_AsStated ==
    /\ \A s \in Staves, p \in QueryPositions :
           LET layout == StaffLayoutAtPos(s, children[s], p)
           IN IF PlacesAt(TimeSignatures(s), p) = {}
              THEN layout = FringeLayoutAtStaffPosX(Clefs(s), KeySignatures(s), <<>>, p)
              ELSE layout.time_signature =
                       Some(0 - WidthOfFirstAt(TimeSignatures(s), p)
                              - Staff_TIME_SIG_PADDING)
    /\ \A s \in Staves, l \in Locations :
           LET p == GroupStaffPosX(l, staff_flowable_x[s])
               isolated == IsolatedLayout(s, l)
           IN IF PlacesAt(TimeSignatures(s), p) = {}
              THEN isolated = FringeLayoutForIsolatedStaff(
                                  Clefs(s), KeySignatures(s), <<>>,
                                  staff_flowable_x[s], l)
              ELSE /\ isolated # None
                   /\ isolated[1].time_signature =
                          Some(0 - RIGHT_PADDING
                                 - WidthOfFirstAt(TimeSignatures(s), p)
                                 - TIME_SIG_LEFT_PADDING)

\* C9 amended: the time signatures contribute nothing unless one lies exactly
\* at the break position; then Staff records the time_signature edge at minus
\* (width + time-signature padding), and StaffGroup records it at the running
\* position after the right padding minus the width alone, the time-signature
\* padding being subtracted only after the edge was recorded.
C9_TimeSignatureEdge ==
    /\ \A s \in Staves, p \in QueryPositions :
           LET layout == StaffLayoutAtPos(s, children[s], p)
           IN IF PlacesAt(TimeSignatures(s), p) = {}
              THEN layout = FringeLayoutAtStaffPosX(Clefs(s), KeySignatures(s), <<>>, p)
              ELSE layout.time_signature =
                       Some(0 - WidthOfFirstAt(TimeSignatures(s), p)
                              - Staff_TIME_SIG_PADDING)
    /\ \A s \in Staves, l \in Locations :
           LET p == GroupStaffPosX(l, staff_flowable_x[s])
               isolated == IsolatedLayout(s, l)
           IN IF PlacesAt(TimeSignatures(s), p) = {}
              THEN isolated = FringeLayoutForIsolatedStaff(
                                  Clefs(s), KeySignatures(s), <<>>,
                                  staff_flowable_x[s], l)
              ELSE /\ isolated # None
                   /\ isolated[1].time_signature =
                          Some(0 - RIGHT_PADDING
                                 - WidthOfFirstAt(TimeSignatures(s), p))

\* C9 witness: the group has just returned the layout of a staff at the line
\* break, where the staff's index lists a time signature at x = 0 (earlier
\* than the break position, contributing nothing) and one of width 2 exactly
\* at it, whose edge is recorded at -(right padding + 2).
C9_Witness ==
    /\ ret.op = "group_fringe_layout_at"
    /\ ~ret.raised
    /\ ret.location # None
    /\ ret.out[1].pos_x_in_staff > 0
    /\ \E e \in Entries(TimeSignatures(ret.staff)) : e.x = 0
    /\ \E e \in Entries(TimeSignatures(ret.staff)) :
           e.x = ret.out[1].pos_x_in_staff /\ e.w = 2
    /\ ret.out[1].time_signature = Some(0 - (RIGHT_PADDING + 2))

\* What Staff.fringe_layout_at(location) returns if called now.
StaffLayoutNow(s, location) ==
    IF location # None /\ fringe_layouts[s][location] # None
    THEN fringe_layouts[s][location]
    ELSE Some(StaffLayoutAtPos(s, children[s],
                               IF location # None
                               THEN LineStaffPosX(location, staff_flowable_x[s])
                               ELSE 0))

\* What StaffGroup.fringe_layout_at(staff, location) returns if called now
\* for a member (None when it raises).
GroupRequestNow(s, location) ==
    IF Cached(s, location) # None THEN Cached(s, location)
    ELSE GroupLayoutNow(s, location)

\* C11: while the staves and the member list are left unchanged, asking
\* again gives the same layout: a layout a Staff or the StaffGroup has cached
\* equals the one recomputed now, and the layout a request has just returned
\* is the one the same request returns now, from cache or recomputed.
C11_RequestRepeatable ==
    /\ \A s \in Solo, l \in Lines :
           fringe_layouts[s][l] # None
               => fringe_layouts[s][l] =
                      Some(StaffLayoutAtPos(s, children[s],
                                            LineStaffPosX(l, staff_flowable_x[s])))
    /\ \A s \in Members, l \in Locations :
           Cached(s, l) # None => Cached(s, l) = GroupLayoutNow(s, l)
    /\ ret.op = "fringe_layout_at"
           => ret.out = StaffLayoutNow(ret.staff, ret.location)
    /\ (ret.op = "group_fringe_layout_at" /\ ret.staff \in Members)
           => ret.out = GroupRequestNow(ret.staff, ret.location)

\* C11 witness: the group has just answered a request for a line break from
\* both staves' layouts, and the staff asked for, which holds a modifier, has
\* its own layout at that line cached as well.
C11_Witness ==
    /\ ret.op = "group_fringe_layout_at"
    /\ ~ret.raised
    /\ ret.location # None
    /\ Members = Staves
    /\ children[ret.staff] # <<>>
    /\ fringe_layouts[ret.staff][ret.location] # None
    /\ Cached(ret.staff, ret.location) = ret.out

\* ------------------------------------------------ measuring and pitch queries

\* Staff.breakable_length: the length the staff was constructed with.
StaffLength == 3

\* The outcome of a query that takes an argument: out is Some(value), or None
\* when the query raised.
QueryRet(op, s, arg, out) ==
    [op |-> op, staff |-> s, location |-> None, arg |-> arg,
     raised |-> out = None, out |-> out]

\* Mutant of ClosestAfter: an object at the very position of the measured one
\* counts as the next one (start_x <= relative_x).
RECURSIVE ClosestAfter_AtOrAfter(_, _, _)
ClosestAfter_AtOrAfter(items, start_x, closest_x) ==
    IF items = <<>> THEN closest_x
    ELSE LET relative_x == Head(items).x
         IN ClosestAfter_AtOrAfter(
                Tail(items), start_x,
                IF start_x <= relative_x /\ (closest_x = None \/ relative_x < closest_x[1])
                THEN Some(relative_x) ELSE closest_x)

\* The loop of distance_to_next_of_type over all_others_of_class: closest_x
\* starts at infinity (None) and is lowered to each relative_x with
\* start_x < relative_x < closest_x.
RECURSIVE ClosestAfter(_, _, _)
ClosestAfter(items, start_x, closest_x) ==
    IF items = <<>> THEN closest_x
    ELSE LET relative_x == Head(items).x
         IN ClosestAfter(
                Tail(items), start_x,
                IF start_x < relative_x /\ (closest_x = None \/ relative_x < closest_x[1])
                THEN Some(relative_x) ELSE closest_x)

\* descendants_of_exact_class(type(staff_object)) without staff_object, the
\* i-th descendant, in tree order.
AllOthersOfClass(kids, i) ==
    LET RECURSIVE Others(_)
        Others(j) == IF j > Len(kids) THEN <<>>
                     ELSE IF j # i /\ kids[j].kind = kids[i].kind
                          THEN <<kids[j]>> \o Others(j + 1)
                          ELSE Others(j + 1)
    IN Others(1)

\* Staff.distance_to_next_of_type(staff_object), staff_object being the i-th
\* descendant in kids.
DistanceToNext(kids, i) ==
    LET start_x == kids[i].x
        closest_x == ClosestAfter(AllOthersOfClass(kids, i), start_x, None)
    IN IF closest_x = None THEN StaffLength - start_x ELSE closest_x[1] - start_x

\* staff.distance_to_next_of_type(staff_object)
DistanceToNextOfType(s, i) ==
    /\ i \in 1 .. Len(children[s])
    /\ ret' = QueryRet("distance_to_next_of_type", s, i, Some(DistanceToNext(children[s], i)))
    /\ UNCHANGED <<others, children, created, staff_flowable_x, clef_x_positions,
                   key_signature_x_positions, time_signature_x_positions,
                   fringe_layouts, staves, fringe_layout_cache, margin_controllers>>

\* clef.middle_c_staff_position: fixed by the clef's type, which the model
\* tells by the clef's width (treble 5, bass -1, any other 2 staff units).
MiddleCStaffPosition(clef) ==
    IF clef.w = 1 THEN 5 * StaffUnit
    ELSE IF clef.w = 2 THEN (0 - 1) * StaffUnit
    ELSE 2 * StaffUnit

\* Mutant of MiddleCOf: without an active clef the treble clef is assumed.
MiddleCOf_DefaultsToTreble(clef) ==
    IF clef = None THEN Some(5 * StaffUnit) ELSE Some(MiddleCStaffPosition(clef[1]))

\* The body of middle_c_at after the lookup: None stands for raise NoClefError.
MiddleCOf(clef) ==
    IF clef = None THEN None ELSE Some(MiddleCStaffPosition(clef[1]))

\* Staff.middle_c_at(pos_x)
MiddleCAt(s, pos_x) ==
    /\ clef_x_positions' =
           [clef_x_positions EXCEPT ![s] = IndexAfterRead(@, children[s], "clef")]
    /\ ret' = QueryRet("middle_c_at", s, pos_x, MiddleCOf(ActiveAt(Clefs(s), pos_x)))
    /\ UNCHANGED <<others, children, created, staff_flowable_x, key_signature_x_positions,
                   time_signature_x_positions, fringe_layouts, staves,
                   fringe_layout_cache, margin_controllers>>

\* The positions on the staff, from its start to just before its end.
StaffPositions == 0 .. (StaffLength - 1)

\* One staff measured and asked for pitches: modifiers are added, the
\* distance to the next object of a type and the position of middle C are
\* asked for.
QueryNext ==
    \/ \E s \in Solo, x \in StaffPositions, w \in Widths : AddClef(s, x, w)
    \/ \E s \in Solo, x \in StaffPositions, w \in Widths : AddKeySignature(s, x, w)
    \/ \E s \in Solo, x \in StaffPositions, w \in Widths : AddTimeSignature(s, x, w)
    \/ \E s \in Solo, i \in 1 .. MaxObjects : DistanceToNextOfType(s, i)
    \/ \E s \in Solo, x \in QueryPositions : MiddleCAt(s, x)

QuerySpec == Init /\ [][QueryNext]_vars

\* The positions of the staff's other descendants of the class of its i-th
\* descendant that lie strictly after it.
LaterOfSameClass(s, i) ==
    {children[s][j].x : j \in {k \in 1 .. Len(children[s]) :
                                  /\ k # i
                                  /\ children[s][k].kind = children[s][i].kind
                                  /\ children[s][k].x > children[s][i].x}}

\* C12: distance_to_next_of_type(o) returns breakable_length - p when no other
\* descendant of o's class lies strictly after o's position p, and otherwise
\* the smallest such position minus p; descendants of the class at or before
\* p and descendants of other classes do not matter.
C12_DistanceToNextOfType ==
    ret.op = "distance_to_next_of_type"
        => LET p == children[ret.staff][ret.arg].x
               later == LaterOfSameClass(ret.staff, ret.arg)
           IN /\ ~ret.raised
              /\ later = {} => ret.out = Some(StaffLength - p)
              /\ later # {} => ret.out = Some(Min(later) - p)

\* C12 witness: the distance was asked for the first descendant, at position
\* 0, which is followed in the tree by one of its class at position 2 and
\* then one at position 1: the distance is 1.
C12_Witness ==
    /\ ret.op = "distance_to_next_of_type"
    /\ ret.arg = 1
    /\ LET kids == children[ret.staff]
       IN /\ Len(kids) = 3
          /\ kids[1].x = 0 /\ kids[2].x = 2 /\ kids[3].x = 1
          /\ kids[2].kind = kids[1].kind
          /\ kids[3].kind = kids[1].kind
    /\ ret.out = Some(1)

\* C13: middle_c_at(x) raises NoClefError exactly when the staff's clefs index
\* lists no clef at or before x, and otherwise returns the
\* middle_c_staff_position of the listed clef with the greatest position <= x,
\* the clef active_clef_at(x) returns.
C13_MiddleCOfActiveClef ==
    ret.op = "middle_c_at"
        => LET at_or_before == {e \in Entries(Clefs(ret.staff)) : e.x <= ret.arg}
           IN /\ ret.raised <=> at_or_before = {}
              /\ ~ret.raised
                     => /\ ActiveAt(Clefs(ret.staff), ret.arg) # None
                        /\ ret.out = Some(MiddleCStaffPosition(
                                              ActiveAt(Clefs(ret.staff), ret.arg)[1]))
                        /\ \E e \in at_or_before :
                               /\ \A f \in at_or_before : f.x <= e.x
                               /\ ret.out = Some(MiddleCStaffPosition(e))

\* C13 witness: middle_c_at was asked after a bass clef that follows a treble
\* clef and returned the bass clef's middle C.
C13_Witness ==
    /\ ret.op = "middle_c_at"
    /\ ~ret.raised
    /\ Entries(Clefs(ret.staff)) = {[x |-> 0, w |-> 1], [x |-> 1, w |-> 2]}
    /\ ret.arg > 1
    /\ ret.out = Some((0 - 1) * StaffUnit)

\* ------------------------------------------------------------ render cycle

\* Staff.render_slice(pos, clip_start_x, clip_width, flowable_line), as far as
\* the staff's state goes: it asks fringe_layout_at(flowable_line) for the
\* line it draws, which returns the line's stored layout or computes one from
\* the indices and stores it. Nothing follows it: Staff defines no
\* post_render_hook and no method that resets its caches.
RenderLine(s, flowable_line) ==
    /\ IF fringe_layouts[s][flowable_line] # None
       THEN /\ ret' = Ret("render", s, flowable_line, fringe_layouts[s][flowable_line])
            /\ UNCHANGED <<clef_x_positions, key_signature_x_positions,
                           time_signature_x_positions, fringe_layouts>>
       ELSE LET layout == StaffLayoutAtPos(s, children[s],
                                           LineStaffPosX(flowable_line,
                                                         staff_flowable_x[s]))
            IN /\ clef_x_positions' = ClefsAfterRead({s}, children)
               /\ key_signature_x_positions' = KeySignaturesAfterRead({s}, children)
               /\ time_signature_x_positions' = TimeSignaturesAfterRead({s}, children)
               /\ fringe_layouts' = [fringe_layouts EXCEPT
                                        ![s][flowable_line] = Some(layout)]
               /\ ret' = Ret("render", s, flowable_line, Some(layout))
    /\ UNCHANGED <<others, children, created, staff_flowable_x, staves, fringe_layout_cache,
                   margin_controllers>>

\* One staff rendered and edited in turn: the pre-render phase calls its
\* pre_render_hook, the render phase its render_slice, each a call of its
\* own, with reads and edits of the staff before, between and after them.
RenderNext ==
    \/ \E s \in Solo : ReadClefs(s)
    \/ \E s \in Solo, l \in Locations : FringeLayoutAt(s, l)
    \/ \E s \in Solo : PreRenderHook(s)
    \/ \E s \in Solo, l \in Lines : RenderLine(s, l)
    \/ \E s \in Solo, x \in Positions, w \in Widths : AddClef(s, x, w)
    \/ \E s \in Solo, x \in Positions, w \in Widths : AddKeySignature(s, x, w)
    \/ \E s \in Solo, x \in Positions, w \in Widths : AddTimeSignature(s, x, w)

RenderSpec == Init /\ [][RenderNext]_vars

\* An index attribute holds no list of modifiers.
IndexEmpty(cache) == ~cache.set \/ cache.val = <<>>

\* The layout of a staff at a position computed from its descendants as they
\* are.
LayoutOfCurrentStaff(s, pos_x) ==
    FringeLayoutAtStaffPosX(ScanIndex(children[s], "clef"),
                            ScanIndex(children[s], "key_signature"),
                            ScanIndex(children[s], "time_signature"), pos_x)

\* C14: when a render cycle has completed, the staff's modifier indices and
\* fringe layouts and the group's aligned layouts are empty; and a layout
\* asked of a staff after a render cycle is the one computed from the
\* staff's descendants as they are then.
C14_CachesClearedAfterRender ==
    /\ (margin_controllers # <<>> /\ ret.op = "render")
           => /\ IndexEmpty(clef_x_positions[ret.staff])
              /\ IndexEmpty(key_signature_x_positions[ret.staff])
              /\ IndexEmpty(time_signature_x_positions[ret.staff])
              /\ \A l \in Lines : fringe_layouts[ret.staff][l] = None
              /\ NothingCached
    /\ (margin_controllers # <<>> /\ ret.op = "fringe_layout_at")
           => ret.out = Some(LayoutOfCurrentStaff(
                                 ret.staff,
                                 IF ret.location # None
                                 THEN LineStaffPosX(ret.location,
                                                    staff_flowable_x[ret.staff])
                                 ELSE 0))

\* ------------------------------------------------- flowable line breaking

\* The longest flowable, the widest page and the most margin controllers.
MaxFlowableLength == 4
MaxLiveWidth == 3
MaxMargins == 2

\* The layers margin controllers are registered for.
LayerKeys == {"neoscore_staff", "neoscore_clef"}

\* The controller of one layer active at flowable position x: the one
\* registered last among those with the greatest position <= x.
ActiveController(controllers, layer_key, x) ==
    LET at_or_before == {i \in 1 .. Len(controllers) :
                            controllers[i].tag = layer_key /\ controllers[i].x <= x}
        latest == {i \in at_or_before :
                      \A j \in at_or_before : controllers[j].x <= controllers[i].x}
    IN IF at_or_before = {} THEN None ELSE Some(controllers[Max(latest)])

\* The leading space a line starting at x reserves: the margins of the
\* controllers active at x, one per layer.
RECURSIVE MarginSum(_, _, _)
MarginSum(controllers, layer_keys, x) ==
    IF layer_keys = {} THEN 0
    ELSE LET k == CHOOSE key \in layer_keys : TRUE
             active == ActiveController(controllers, k, x)
         IN (IF active = None THEN 0 ELSE active[1].w)
            + MarginSum(controllers, layer_keys \ {k}, x)

\* A Line: where it starts on the timeline and how much of it it carries.
Line(flowable_x, length) == [flowable_x |-> flowable_x, length |-> length]

\* Mutant of WalkTimeline: every line is given the full room of the page,
\* the last one too, whatever content remains.
RECURSIVE WalkTimeline_FullLines(_, _, _, _, _)
WalkTimeline_FullLines(controllers, length, live_width, x, lines) ==
    IF x >= length THEN Some(lines)
    ELSE LET room == live_width - MarginSum(controllers, LayerKeys, x)
         IN IF room <= 0 THEN None
            ELSE WalkTimeline_FullLines(controllers, length, live_width, x + room,
                                        Append(lines, Line(x, room)))

\* The greedy walk of the line breaker from timeline position x on: each line
\* is the longest that fits the page's live width after the leading space
\* of the controllers active at its start; None when a line has no room
\* left (a configuration error raised to the caller).
RECURSIVE WalkTimeline(_, _, _, _, _)
WalkTimeline(controllers, length, live_width, x, lines) ==
    IF x >= length THEN Some(lines)
    ELSE LET room == live_width - MarginSum(controllers, LayerKeys, x)
             line_length == MinOf(room, length - x)
         IN IF room <= 0 THEN None
            ELSE WalkTimeline(controllers, length, live_width, x + line_length,
                              Append(lines, Line(x, line_length)))

\* Flowable.add_margin_controller(MarginController(position, width, tag))
AddMarginController(x, w, tag) ==
    /\ Len(margin_controllers) < MaxMargins
    /\ margin_controllers' = Append(margin_controllers, MarginController(x, w, tag))
    /\ ret' = NoRet
    /\ UNCHANGED <<others, children, created, staff_flowable_x, clef_x_positions,
                   key_signature_x_positions, time_signature_x_positions,
                   fringe_layouts, staves, fringe_layout_cache>>

\* Line breaking of a flowable of a length on pages of a live width, from
\* Unbroken to Broken.
BreakLines(length, live_width) ==
    /\ ret' = QueryRet("break_lines", "s1", [length |-> length, live_width |-> live_width],
                       WalkTimeline(margin_controllers, length, live_width, 0, <<>>))
    /\ UNCHANGED <<others, children, created, staff_flowable_x, clef_x_positions,
                   key_signature_x_positions, time_signature_x_positions,
                   fringe_layouts, staves, fringe_layout_cache, margin_controllers>>

\* A flowable with margin controllers registered and its lines broken.
LineNext ==
    \/ \E x \in 0 .. (MaxFlowableLength - 1), w \in 0 .. MaxWidth, tag \in LayerKeys :
           AddMarginController(x, w, tag)
    \/ \E length \in 1 .. MaxFlowableLength, live_width \in 1 .. MaxLiveWidth :
           BreakLines(length, live_width)

LineSpec == Init /\ [][LineNext]_vars

RECURSIVE SumOfLengths(_)
SumOfLengths(lines) ==
    IF lines = <<>> THEN 0 ELSE Head(lines).length + SumOfLengths(Tail(lines))

\* C15: once line breaking has finished, the first Line starts at 0, each
\* Line has content and starts where the one before ends (so they are in
\* increasing order and do not overlap), and their lengths add up to the
\* flowable's length.
C15_LinesPartitionTimeline ==
    (ret.op = "break_lines" /\ ~ret.raised)
        => LET lines == ret.out[1]
           IN /\ lines # <<>>
              /\ lines[1].flowable_x = 0
              /\ \A i \in 1 .. Len(lines) : lines[i].length > 0
              /\ \A i \in 1 .. (Len(lines) - 1) :
                     lines[i + 1].flowable_x = lines[i].flowable_x + lines[i].length
              /\ SumOfLengths(lines) = ret.arg.length

\* C15 witness: a flowable of the greatest length was broken into three
\* lines, the later ones shortened by a margin controller active at their
\* start.
C15_Witness ==
    /\ ret.op = "break_lines"
    /\ ~ret.raised
    /\ ret.arg.length = MaxFlowableLength
    /\ margin_controllers # <<>>
    /\ Len(ret.out[1]) = 3
    /\ ret.out[1][1].length > ret.out[1][2].length

\* ------------------------------------------------------------ unit values

\* Python numbers are modelled as exact fractions num/den (den > 0, lowest
\* terms) with a flag telling a float from an int.  The unit ratios and the
\* input values are powers of two (or zero), for which float arithmetic is
\* exact, so that the fraction is the very number Python computes.
MaxUnitValue == 2

Abs(n) == IF n < 0 THEN 0 - n ELSE n

RECURSIVE GCD(_, _)
GCD(a, b) == IF b = 0 THEN a ELSE GCD(b, a % b)

\* The fraction n/d (d # 0) in lowest terms with a positive denominator.
Fraction(n, d) ==
    LET sn == IF d < 0 THEN 0 - n ELSE n
        sd == Abs(d)
        g == GCD(Abs(sn), sd)
    IN [num |-> sn \div g, den |-> sd \div g]

\* Values a unit may be constructed from or combined with: an int or float,
\* a unit value (of class cls), or a value of another Python type.
PyNumber(num, den, is_float) ==
    [tag |-> "number", cls |-> "", num |-> num, den |-> den, float |-> is_float]
UnitValue(cls, num, den, is_float) ==
    [tag |-> "unit", cls |-> cls, num |-> num, den |-> den, float |-> is_float]
PyOther(type_name) ==
    [tag |-> "other", cls |-> type_name, num |-> 0, den |-> 1, float |-> FALSE]

\* The number held by a number or a unit (unit.value).
ValueOf(v) == PyNumber(v.num, v.den, v.float)

\* BaseUnit and subclasses of it, two of them with the same ratio.
UnitClasses == {"BaseUnit", "UnitA", "UnitB", "UnitC"}

\* cls._base_units_per_self_unit
BaseUnitsPerSelfUnit(cls) ==
    CASE cls = "BaseUnit" -> 1
      [] cls = "UnitA" -> 1
      [] cls = "UnitB" -> 2
      [] OTHER -> 4

\* What a call gives: a value, or the name of the exception it raises.
Returns(v) == [raised |-> FALSE, error |-> "", val |-> v]
Raises(error) == [raised |-> TRUE, error |-> error, val |-> PyOther("NoneType")]

\* int/float arithmetic: a result is a float if an operand is, and true
\* division always gives a float.
NumAdd(a, b) ==
    LET f == Fraction(a.num * b.den + b.num * a.den, a.den * b.den)
    IN Returns(PyNumber(f.num, f.den, a.float \/ b.float))
NumSub(a, b) ==
    LET f == Fraction(a.num * b.den - b.num * a.den, a.den * b.den)
    IN Returns(PyNumber(f.num, f.den, a.float \/ b.float))
NumMul(a, b) ==
    LET f == Fraction(a.num * b.num, a.den * b.den)
    IN Returns(PyNumber(f.num, f.den, a.float \/ b.float))
NumTrueDiv(a, b) ==
    IF b.num = 0 THEN Raises("ZeroDivisionError")
    ELSE LET f == Fraction(a.num * b.den, a.den * b.num)
         IN Returns(PyNumber(f.num, f.den, TRUE))
NumFloorDiv(a, b) ==
    IF b.num = 0 THEN Raises("ZeroDivisionError")
    ELSE LET f == Fraction(a.num * b.den, a.den * b.num)
         IN Returns(PyNumber(f.num \div f.den, 1, a.float \/ b.float))
NumLt(a, b) == a.num * b.den < b.num * a.den
NumEq(a, b) == a.num * b.den = b.num * a.den

\* Mutant of BaseUnit_init: the conversion multiplies by the ratio of the
\* class being constructed and divides by the ratio of the value's class.
BaseUnit_init_InverseRatio(cls, value) ==
    IF value.tag = "number" THEN Returns(UnitValue(cls, value.num, value.den, value.float))
    ELSE IF value.tag = "unit" /\ value.cls = cls
    THEN Returns(UnitValue(cls, value.num, value.den, value.float))
    ELSE IF value.tag = "unit"
    THEN LET f == Fraction(BaseUnitsPerSelfUnit(cls) * value.num,
                           value.den * BaseUnitsPerSelfUnit(value.cls))
         IN Returns(UnitValue(cls, f.num, f.den, f.den # 1))
    ELSE Raises("TypeError")

\* BaseUnit.__init__(self, value) for self of class cls: a number is stored
\* directly, a unit of the same class is duplicated, another unit is
\* converted by true division (a float, made an int when it is whole), and
\* anything else raises TypeError.
BaseUnit_init(cls, value) ==
    IF value.tag = "number" THEN Returns(UnitValue(cls, value.num, value.den, value.float))
    ELSE IF value.tag = "unit" /\ value.cls = cls
    THEN Returns(UnitValue(cls, value.num, value.den, value.float))
    ELSE IF value.tag = "unit"
    THEN LET f == Fraction(BaseUnitsPerSelfUnit(value.cls) * value.num,
                           value.den * BaseUnitsPerSelfUnit(cls))
         IN Returns(UnitValue(cls, f.num, f.den, f.den # 1))
    ELSE Raises("TypeError")

\* self.__class__(self.value <op> self.__class__(other).value), given what
\* <op> made of the two values.
ResultOfClass(cls, combined) ==
    IF combined.raised THEN combined ELSE BaseUnit_init(cls, combined.val)

\* Mutant of BaseUnit_add: the right operand's value is added as it is,
\* without converting it into the left operand's unit.
BaseUnit_add_Unconverted(self, other) ==
    IF other.tag = "other" THEN Raises("TypeError")
    ELSE ResultOfClass(self.cls, NumAdd(ValueOf(self), ValueOf(other)))

BaseUnit_add(self, other) ==
    LET converted == BaseUnit_init(self.cls, other)
    IN IF converted.raised THEN converted
       ELSE ResultOfClass(self.cls, NumAdd(ValueOf(self), ValueOf(converted.val)))

BaseUnit_sub(self, other) ==
    LET converted == BaseUnit_init(self.cls, other)
    IN IF converted.raised THEN converted
       ELSE ResultOfClass(self.cls, NumSub(ValueOf(self), ValueOf(converted.val)))

BaseUnit_mul(self, other) ==
    LET converted == BaseUnit_init(self.cls, other)
    IN IF converted.raised THEN converted
       ELSE ResultOfClass(self.cls, NumMul(ValueOf(self), ValueOf(converted.val)))

BaseUnit_truediv(self, other) ==
    LET converted == BaseUnit_init(self.cls, other)
    IN IF converted.raised THEN converted
       ELSE ResultOfClass(self.cls, NumTrueDiv(ValueOf(self), ValueOf(converted.val)))

BaseUnit_floordiv(self, other) ==
    LET converted == BaseUnit_init(self.cls, other)
    IN IF converted.raised THEN converted
       ELSE ResultOfClass(self.cls, NumFloorDiv(ValueOf(self), ValueOf(converted.val)))

BaseUnit_lt(self, other) ==
    LET converted == BaseUnit_init(self.cls, other)
    IN IF converted.raised THEN converted
       ELSE Returns(NumLt(ValueOf(self), ValueOf(converted.val)))

BaseUnit_le(self, other) ==
    LET converted == BaseUnit_init(self.cls, other)
    IN IF converted.raised THEN converted
       ELSE Returns(~NumLt(ValueOf(converted.val), ValueOf(self)))

BaseUnit_eq(self, other) ==
    LET converted == BaseUnit_init(self.cls, other)
    IN IF converted.raised THEN converted
       ELSE Returns(NumEq(ValueOf(self), ValueOf(converted.val)))

BaseUnit_ne(self, other) ==
    LET converted == BaseUnit_init(self.cls, other)
    IN IF converted.raised THEN converted
       ELSE Returns(~NumEq(ValueOf(self), ValueOf(converted.val)))

BaseUnit_gt(self, other) ==
    LET converted == BaseUnit_init(self.cls, other)
    IN IF converted.raised THEN converted
       ELSE Returns(NumLt(ValueOf(converted.val), ValueOf(self)))

BaseUnit_ge(self, other) ==
    LET converted == BaseUnit_init(self.cls, other)
    IN IF converted.raised THEN converted
       ELSE Returns(~NumLt(ValueOf(self), ValueOf(converted.val)))

ArithmeticOperators == {"add", "sub", "mul", "truediv", "floordiv"}
ComparisonOperators == {"lt", "le", "eq", "ne", "gt", "ge"}

\* a <op> b as Python dispatches it to the method of the left operand.
ApplyOperator(op, self, other) ==
    CASE op = "add" -> BaseUnit_add(self, other)
      [] op = "sub" -> BaseUnit_sub(self, other)
      [] op = "mul" -> BaseUnit_mul(self, other)
      [] op = "truediv" -> BaseUnit_truediv(self, other)
      [] op = "floordiv" -> BaseUnit_floordiv(self, other)
      [] op = "lt" -> BaseUnit_lt(self, other)
      [] op = "le" -> BaseUnit_le(self, other)
      [] op = "eq" -> BaseUnit_eq(self, other)
      [] op = "ne" -> BaseUnit_ne(self, other)
      [] op = "gt" -> BaseUnit_gt(self, other)
      [] OTHER -> BaseUnit_ge(self, other)

\* The numbers, units and other values the calls are made with: the ints
\* -1 .. MaxUnitValue and the floats 0.5 and 2.0.
PyNumbers ==
    {PyNumber(n, 1, FALSE) : n \in (0 - 1) .. MaxUnitValue}
        \cup {PyNumber(1, 2, TRUE), PyNumber(2, 1, TRUE)}
UnitValues == {UnitValue(cls, n.num, n.den, n.float) : cls \in UnitClasses, n \in PyNumbers}
PyOthers == {PyOther("str"), PyOther("NoneType")}
PyValues == PyNumbers \cup UnitValues \cup PyOthers

\* The result of a call on unit values.
UnitRet(op, cls, self, other, result) ==
    [op |-> op, staff |-> "s1", location |-> None, raised |-> result.raised,
     out |-> result, cls |-> cls, self |-> self, other |-> other]

FrameOfUnits ==
    UNCHANGED <<others, children, created, staff_flowable_x, clef_x_positions,
                key_signature_x_positions, time_signature_x_positions,
                fringe_layouts, staves, fringe_layout_cache, margin_controllers>>

\* A call about to be made on a unit value self (an instance of the class
\* constructed, or the left operand) and a value other.
PendingCall(self, other) ==
    UnitRet("call", self.cls, self, other, Returns(PyOther("NoneType")))

UnitInit ==
    /\ children = [s \in Staves |-> <<>>]
    /\ created = 0
    /\ staff_flowable_x = [s \in Staves |-> 0]
    /\ clef_x_positions = [s \in Staves |-> Unset]
    /\ key_signature_x_positions = [s \in Staves |-> Unset]
    /\ time_signature_x_positions = [s \in Staves |-> Unset]
    /\ fringe_layouts = [s \in Staves |-> NoLayouts]
    /\ staves = <<>>
    /\ fringe_layout_cache = [k \in Staves \X Locations |-> None]
    /\ margin_controllers = <<>>
    /\ OthersInit
    /\ ret \in {PendingCall(self, other) : self \in UnitValues, other \in PyValues}

\* cls(value), cls the class of self
Construct ==
    /\ ret.op = "call"
    /\ ret' = UnitRet("init", ret.cls, ret.self, ret.other, BaseUnit_init(ret.cls, ret.other))
    /\ FrameOfUnits

\* type(value)(cls(value)): a unit value converted to class cls and back.
ConvertAndBack ==
    /\ ret.op = "call"
    /\ ret.other.tag = "unit"
    /\ ret' = UnitRet("round_trip", ret.cls, ret.self, ret.other,
                      BaseUnit_init(ret.other.cls, BaseUnit_init(ret.cls, ret.other).val))
    /\ FrameOfUnits

\* self <op> other
Operate(op) ==
    /\ ret.op = "call"
    /\ ret' = UnitRet(op, ret.cls, ret.self, ret.other, ApplyOperator(op, ret.self, ret.other))
    /\ FrameOfUnits

UnitNext ==
    \/ Construct
    \/ ConvertAndBack
    \/ \E op \in ArithmeticOperators \cup ComparisonOperators : Operate(op)

UnitSpec == UnitInit /\ [][UnitNext]_vars

\* b.value * ratio_b / ratio_a for a unit b, and b itself for a bare number.
InUnitOf(a, b) ==
    IF b.tag = "number" THEN [num |-> b.num, den |-> b.den]
    ELSE Fraction(b.num * BaseUnitsPerSelfUnit(b.cls), b.den * BaseUnitsPerSelfUnit(a.cls))

\* a.value <op> b for fractions a and b.
Combined(op, a, b) ==
    CASE op = "add" -> Fraction(a.num * b.den + b.num * a.den, a.den * b.den)
      [] op = "sub" -> Fraction(a.num * b.den - b.num * a.den, a.den * b.den)
      [] op = "mul" -> Fraction(a.num * b.num, a.den * b.den)
      [] op = "truediv" -> Fraction(a.num * b.den, a.den * b.num)
      [] OTHER -> LET q == Fraction(a.num * b.den, a.den * b.num)
                  IN [num |-> q.num \div q.den, den |-> 1]

Compared(op, a, b) ==
    CASE op = "lt" -> a.num * b.den < b.num * a.den
      [] op = "le" -> a.num * b.den <= b.num * a.den
      [] op = "eq" -> a.num * b.den = b.num * a.den
      [] op = "ne" -> a.num * b.den # b.num * a.den
      [] op = "gt" -> a.num * b.den > b.num * a.den
      [] OTHER -> a.num * b.den >= b.num * a.den

\* C16: an arithmetic operator or a comparison of a unit a with a unit or a
\* bare number b combines a.value with b.value * ratio_b / ratio_a (with b
\* itself for a bare number); an arithmetic result is a unit of a's class;
\* only a division by zero raises.
C16_RightOperandConverted ==
    (ret.op \in ArithmeticOperators \cup ComparisonOperators /\ ret.other.tag # "other")
        => LET a == ret.self
               b == InUnitOf(ret.self, ret.other)
           IN IF ret.op \in {"truediv", "floordiv"} /\ b.num = 0
              THEN ret.raised /\ ret.out.error = "ZeroDivisionError"
              ELSE /\ ~ret.raised
                   /\ ret.op \in ArithmeticOperators
                        => /\ ret.out.val.tag = "unit"
                           /\ ret.out.val.cls = a.cls
                           /\ [num |-> ret.out.val.num, den |-> ret.out.val.den]
                                = Combined(ret.op, a, b)
                   /\ ret.op \in ComparisonOperators
                        => ret.out.val = Compared(ret.op, a, b)

\* C16 witness: a unit of ratio 4 was added to a unit of ratio 1 and the sum
\* is a unit of the left class holding 1 + 2 * 4.
C16_Witness ==
    /\ ret.op = "add"
    /\ ret.self = UnitValue("UnitA", 1, 1, FALSE)
    /\ ret.other = UnitValue("UnitC", 2, 1, FALSE)
    /\ ret.out.val = UnitValue("UnitA", 9, 1, FALSE)

\* C17: constructing a unit from a raw number stores the number unchanged;
\* from a unit of the same class copies its value; from a unit of another
\* class stores value * ratio(v) / ratio(U); and a unit value converted to
\* another class and back is the number it was.
C17_ConstructionConverts ==
    /\ (ret.op = "init" /\ ret.other.tag = "number")
         => /\ ~ret.raised
            /\ ret.out.val = UnitValue(ret.cls, ret.other.num, ret.other.den, ret.other.float)
    /\ (ret.op = "init" /\ ret.other.tag = "unit" /\ ret.other.cls = ret.cls)
         => /\ ~ret.raised
            /\ ret.out.val = ret.other
    /\ (ret.op = "init" /\ ret.other.tag = "unit" /\ ret.other.cls # ret.cls)
         => /\ ~ret.raised
            /\ ret.out.val.tag = "unit"
            /\ ret.out.val.cls = ret.cls
            /\ ret.out.val.num * ret.other.den * BaseUnitsPerSelfUnit(ret.cls)
                 = ret.other.num * BaseUnitsPerSelfUnit(ret.other.cls) * ret.out.val.den
    /\ ret.op = "round_trip"
         => /\ ~ret.raised
            /\ ret.out.val.cls = ret.other.cls
            /\ ret.out.val.num * ret.other.den = ret.other.num * ret.out.val.den

\* C17 witness: one unit of ratio 2 was converted into a unit of ratio 4,
\* giving the half, and back.
C17_Witness ==
    /\ ret.op = "round_trip"
    /\ ret.cls = "UnitC"
    /\ ret.other = UnitValue("UnitB", 1, 1, FALSE)
    /\ BaseUnit_init("UnitC", ret.other).val = UnitValue("UnitC", 1, 2, TRUE)
    /\ ret.out.val = ret.other

\* The calls C18 is about: a construction from, or an operator whose right
\* operand is, a value that is neither a number nor a unit.
UnsupportedOperand ==
    /\ ret.op \in {"init"} \cup ArithmeticOperators \cup ComparisonOperators
    /\ ret.other.tag = "other"

\* C18: constructing a unit from a value that is neither a number nor a
\* unit, or applying an operator with such a right operand, fails with
\* TypeConversionError.
C18_UnsupportedValueRaises ==
    UnsupportedOperand => (ret.raised /\ ret.out.error = "TypeConversionError")

\* ------------------------------------------- assigning to a returned layout

\* The offsets held by the StaffFringeLayout dataclass.
LayoutFields == {"staff", "clef", "key_signature", "time_signature"}

\* layout.<field> = value on the object the last Staff.fringe_layout_at
\* call returned for a line: the dataclass is not frozen, so the assignment
\* succeeds, and the object is the one held in the staff's _fringe_layouts.
SetLayoutAttribute(field, value) ==
    /\ ret.op = "fringe_layout_at"
    /\ ret.location # None
    /\ fringe_layouts[ret.staff][ret.location] = ret.out
    /\ fringe_layouts' =
           [fringe_layouts EXCEPT
                ![ret.staff][ret.location] = Some([ret.out[1] EXCEPT ![field] = value])]
    /\ ret' = Ret("setattr", ret.staff, ret.location,
                  Some([ret.out[1] EXCEPT ![field] = value]))
    /\ UNCHANGED <<others, children, created, staff_flowable_x, clef_x_positions,
                   key_signature_x_positions, time_signature_x_positions,
                   staves, fringe_layout_cache, margin_controllers>>

\* A staff is built, layouts are requested from it for line breaks, and the
\* callers assign to attributes of the layouts they were given; the staff is
\* not changed once a layout was cached.
AssignNext ==
    \/ \E s \in Solo, l \in Locations : FringeLayoutAt(s, l)
    \/ \E field \in LayoutFields :
           SetLayoutAttribute(field, IF field = "staff" THEN 0 - MaxWidth
                                     ELSE Some(0 - MaxWidth))
    \/ NoStaffLayoutCached /\ \E s \in Solo, x \in Positions, w \in Widths : AddClef(s, x, w)
    \/ NoStaffLayoutCached
         /\ \E s \in Solo, x \in Positions, w \in Widths : AddKeySignature(s, x, w)
    \/ NoStaffLayoutCached
         /\ \E s \in Solo, x \in Positions, w \in Widths : AddTimeSignature(s, x, w)

AssignSpec == Init /\ [][AssignNext]_vars

\* C19: a layout that Staff.fringe_layout_at returns for a line break of an
\* unchanged staff has the offsets that were computed for that line,
\* whatever callers did with the layouts returned before.
C19_ReturnedOffsetsAsComputed ==
    (ret.op = "fringe_layout_at" /\ ret.location # None)
        => ret.out = Some(StaffLayoutAtPos(ret.staff, children[ret.staff],
                                           LineStaffPosX(ret.location,
                                                         staff_flowable_x[ret.staff])))

\* ------------------------------------------------------------------ pitches

\* Pitch strings are sequences of characters of at most this length.
MaxPitchLen == 4

\* The characters the strings are made of: the letters of the pitch regex,
\* the accidentals s and n (f is a letter too), the octave marks, and a
\* character the regex does not know.
PitchLetters == {"a", "b", "c", "d", "e", "f", "g"}
AccidentalChars == {"s", "n", "f"}
Chars == PitchLetters \cup AccidentalChars \cup {"'", ",", "h"}
PitchStrings == UNION {[1 .. n -> Chars] : n \in 0 .. MaxPitchLen}

\* s * n for a one-character string s.
Repeat(c, n) == [i \in 1 .. n |-> c]

\* VirtualAccidental.value (setter) for a str or None, as the regex gives it.
VirtualAccidentalValue(new_value) ==
    IF new_value = None THEN None
    ELSE CASE new_value[1] = "f" -> Some(0 - 1)
           [] new_value[1] = "n" -> Some(0)
           [] OTHER -> Some(1)

\* VirtualAccidental.value_as_str
ValueAsStr(value) ==
    IF value = None THEN None
    ELSE CASE value[1] = 0 - 1 -> Some("f")
           [] value[1] = 0 -> Some("n")
           [] OTHER -> Some("s")

\* Pitch._pitch_regex.match(value): the groups (letter, accidental, ticks) of
\* ^([a-g])([snf])?('*|,*)$, or None when the string does not match.
PitchRegexMatch(value) ==
    IF Len(value) = 0 \/ value[1] \notin PitchLetters THEN None
    ELSE LET has_accidental == Len(value) >= 2 /\ value[2] \in AccidentalChars
             ticks == SubSeq(value, IF has_accidental THEN 3 ELSE 2, Len(value))
         IN IF \/ \A i \in 1 .. Len(ticks) : ticks[i] = "'"
               \/ \A i \in 1 .. Len(ticks) : ticks[i] = ","
            THEN Some([letter |-> value[1],
                       virtual_accidental |-> IF has_accidental THEN Some(value[2])
                                              ELSE None,
                       ticks |-> ticks])
            ELSE None

\* Pitch(value): the attributes the pitch setter stores, or None when it
\* raises InvalidPitchDescriptionError.
Pitch(value) ==
    LET match == PitchRegexMatch(value)
    IN IF match = None THEN None
       ELSE LET ticks == match[1].ticks
            IN Some([letter |-> match[1].letter,
                     virtual_accidental |->
                         VirtualAccidentalValue(match[1].virtual_accidental),
                     octave |-> IF ticks = <<>> THEN 3
                                ELSE 3 + Len(ticks) * (IF ticks[1] = "," THEN 0 - 1 ELSE 1)])

\* Mutant of StringDescriptor: the accidental is appended only when its value
\* is truthy, which an explicit natural (0) is not.
StringDescriptor_TruthyAccidental(pitch) ==
    LET with_accidental ==
            IF pitch.virtual_accidental # None /\ pitch.virtual_accidental[1] # 0
            THEN <<pitch.letter>> \o ValueAsStr(pitch.virtual_accidental)
            ELSE <<pitch.letter>>
    IN IF pitch.octave > 3
       THEN with_accidental \o Repeat("'", pitch.octave - 3)
       ELSE IF pitch.octave < 3
       THEN with_accidental \o Repeat(",", 3 + (pitch.octave * (0 - 1)))
       ELSE with_accidental

\* Pitch.string_desriptor
StringDescriptor(pitch) ==
    LET with_accidental ==
            IF pitch.virtual_accidental # None
            THEN <<pitch.letter>> \o ValueAsStr(pitch.virtual_accidental)
            ELSE <<pitch.letter>>
    IN IF pitch.octave > 3
       THEN with_accidental \o Repeat("'", pitch.octave - 3)
       ELSE IF pitch.octave < 3
       THEN with_accidental \o Repeat(",", 3 + (pitch.octave * (0 - 1)))
       ELSE with_accidental

\* Pitch.__eq__ on two pitches.
PitchEq(p, q) ==
    /\ p.letter = q.letter
    /\ p.virtual_accidental = q.virtual_accidental
    /\ p.octave = q.octave

PitchInit ==
    /\ children = [s \in Staves |-> <<>>]
    /\ created = 0
    /\ staff_flowable_x = [s \in Staves |-> 0]
    /\ clef_x_positions = [s \in Staves |-> Unset]
    /\ key_signature_x_positions = [s \in Staves |-> Unset]
    /\ time_signature_x_positions = [s \in Staves |-> Unset]
    /\ fringe_layouts = [s \in Staves |-> NoLayouts]
    /\ staves = <<>>
    /\ fringe_layout_cache = [k \in Staves \X Locations |-> None]
    /\ margin_controllers = <<>>
    /\ OthersInit
    /\ ret \in {QueryRet("string", "s1", value, Some(value)) : value \in PitchStrings}

\* Pitch(value)
NewPitch ==
    /\ ret.op = "string"
    /\ ret' = QueryRet("pitch", "s1", ret.arg, Pitch(ret.arg))
    /\ FrameOfUnits

\* Pitch(Pitch(value).string_desriptor)
RecreatePitch ==
    /\ ret.op = "pitch"
    /\ ~ret.raised
    /\ ret' = QueryRet("recreate", "s1", ret.arg,
                       Some([pitch |-> ret.out[1],
                             string_desriptor |-> StringDescriptor(ret.out[1]),
                             recreated |-> Pitch(StringDescriptor(ret.out[1]))]))
    /\ FrameOfUnits

PitchNext == NewPitch \/ RecreatePitch

PitchSpec == PitchInit /\ [][PitchNext]_vars

\* How many of the characters of a string are c.
CountOf(value, c) == Cardinality({i \in 1 .. Len(value) : value[i] = c})

\* C20: for a valid pitch string, the pitch made from its string_desriptor
\* has the letter, the virtual accidental and the octave of the pitch made
\* from the string, and that octave is 3 plus the number of apostrophes or
\* minus the number of commas of the string.
C20_DescriptorRecreatesPitch ==
    ret.op = "recreate"
        => /\ ret.out[1].recreated # None
           /\ PitchEq(ret.out[1].recreated[1], ret.out[1].pitch)
           /\ ret.out[1].pitch.letter = ret.arg[1]
           /\ ret.out[1].pitch.octave = 3 + CountOf(ret.arg, "'") - CountOf(ret.arg, ",")

\* C20 witness: the flat pitch "ff,," (letter f, flat, octave 1) was
\* recreated from its descriptor.
C20_Witness ==
    /\ ret.op = "recreate"
    /\ ret.arg = <<"f", "f", ",", ",">>
    /\ ret.out[1].pitch = [letter |-> "f", virtual_accidental |-> Some(0 - 1), octave |-> 1]
    /\ ret.out[1].string_desriptor = ret.arg
    /\ ret.out[1].recreated # None

\* ------------------------------------------------ pitch class and midi number

\* Pitch._middle_c_octave and Pitch._midi_middle_c
Pitch_middle_c_octave == 4
Pitch_midi_middle_c == 60

\* Pitch.natural_pitch_classes[letter]
NaturalPitchClasses(letter) ==
    CASE letter = "c" -> 0
      [] letter = "d" -> 2
      [] letter = "e" -> 4
      [] letter = "f" -> 5
      [] letter = "g" -> 7
      [] letter = "a" -> 9
      [] OTHER -> 11

\* Pitch.pitch_class
PitchClass(pitch) ==
    IF pitch.virtual_accidental # None
    THEN NaturalPitchClasses(pitch.letter) + pitch.virtual_accidental[1]
    ELSE NaturalPitchClasses(pitch.letter)

\* Pitch.midi_number
MidiNumber(pitch) ==
    Pitch_midi_middle_c + ((pitch.octave - Pitch_middle_c_octave) * 12) + PitchClass(pitch)

\* Pitch(value).pitch_class and Pitch(value).midi_number
ReadMidiNumber ==
    /\ ret.op = "pitch"
    /\ ~ret.raised
    /\ ret' = QueryRet("midi_number", "s1", ret.arg,
                       Some([pitch |-> ret.out[1],
                             pitch_class |-> PitchClass(ret.out[1]),
                             midi_number |-> MidiNumber(ret.out[1])]))
    /\ FrameOfUnits

MidiNext == NewPitch \/ ReadMidiNumber

MidiSpec == PitchInit /\ [][MidiNext]_vars

\* C21: the pitch class of every valid pitch is one of 0 .. 11 and its midi
\* number is 60 + 12 * (octave - 4) + pitch class.
C21_PitchClassAndMidiNumber ==
    ret.op = "midi_number"
        => /\ ret.out[1].pitch_class \in 0 .. 11
           /\ ret.out[1].midi_number
                = 60 + 12 * (ret.out[1].pitch.octave - 4) + ret.out[1].pitch_class

\* --------------------------------------------------------------- MusicText

\* The longest list of characters a text is set from.
MaxTextLen == 2

\* The staff state, which MusicText does not touch.
StaffFrame ==
    UNCHANGED <<children, created, staff_flowable_x, clef_x_positions,
                key_signature_x_positions, time_signature_x_positions,
                fringe_layouts, staves, fringe_layout_cache, margin_controllers>>

\* Glyph names of the music font, and the glyphs with their alternates.
GlyphNames == {"accidentalFlat", "accidentalSharp", "brace"}
Glyphs == {<<name, None>> : name \in GlyphNames} \cup {<<"brace", Some(1)>>}

\* MusicChar(font, glyph_name, alternate)
MusicChar(glyph_name, alternate) == [glyph_name |-> glyph_name, alternate |-> alternate]

\* MusicChar.codepoint: the character the font has for the glyph.
Codepoint(char) ==
    CASE char.glyph_name = "accidentalFlat" -> "\\ue260"
      [] char.glyph_name = "accidentalSharp" -> "\\ue262"
      [] char.glyph_name = "brace" /\ char.alternate = None -> "\\ue000"
      [] OTHER -> "\\uf400"

\* The values text is given as: a str (glyph name, or the empty string), a
\* tuple (glyph name, alternate), a MusicChar, a list of these, or a value of
\* another type.
TextValue(tag, glyph_name, alternate, items) ==
    [tag |-> tag, glyph_name |-> glyph_name, alternate |-> alternate, items |-> items]
TextItems ==
    {TextValue("str", name, None, <<>>) : name \in GlyphNames}
        \cup {TextValue("tuple", g[1], g[2], <<>>) : g \in Glyphs}
        \cup {TextValue("music_char", g[1], g[2], <<>>) : g \in Glyphs}
        \cup {TextValue("other", "", None, <<>>)}
TextLists == UNION {[1 .. n -> TextItems] : n \in 0 .. MaxTextLen}
TextValues ==
    TextItems \cup {TextValue("str", "", None, <<>>)}
        \cup {TextValue("list", "", None, items) : items \in TextLists}
MusicCharLists ==
    UNION {[1 .. n -> {MusicChar(g[1], g[2]) : g \in Glyphs}] : n \in 0 .. MaxTextLen}

\* MusicText._music_chars_to_str
MusicCharsToStr(music_chars) == [i \in 1 .. Len(music_chars) |-> Codepoint(music_chars[i])]

\* One str, tuple or MusicChar made a MusicChar.
ResolveItem(item) == MusicChar(item.glyph_name, item.alternate)

\* MusicText._resolve_music_chars(text, font): Some(list), or None when it
\* raises TypeError.
ResolveMusicChars(text) ==
    CASE text.tag = "str" -> IF text.glyph_name # "" THEN Some(<<ResolveItem(text)>>)
                             ELSE Some(<<>>)
      [] text.tag = "tuple" -> Some(<<ResolveItem(text)>>)
      [] text.tag = "music_char" -> Some(<<ResolveItem(text)>>)
      [] text.tag = "list" ->
             IF \E i \in 1 .. Len(text.items) : text.items[i].tag = "other"
             THEN None
             ELSE Some([i \in 1 .. Len(text.items) |-> ResolveItem(text.items[i])])
      [] OTHER -> None

\* The object with its two attributes.
MusicTextObject(music_chars, text) == Some([music_chars |-> music_chars, text |-> text])

\* MusicText(pos, parent, text, font)
NewMusicText(text) ==
    /\ music_text = None
    /\ LET resolved == ResolveMusicChars(text)
       IN /\ music_text' = IF resolved = None THEN None
                           ELSE MusicTextObject(resolved[1], MusicCharsToStr(resolved[1]))
          /\ ret' = QueryRet("MusicText", "s1", text, resolved)
    /\ StaffFrame
    /\ UNCHANGED <<main_window, time_signature_obj, flowable_lines>>

\* Mutant of SetText: the characters are resolved and stored, the string
\* is left as it was.
SetText_KeepsString(value) ==
    /\ music_text # None
    /\ LET resolved == ResolveMusicChars(value)
       IN /\ music_text' = IF resolved = None THEN music_text
                           ELSE MusicTextObject(resolved[1], music_text[1].text)
          /\ ret' = QueryRet("text", "s1", value, resolved)
    /\ StaffFrame
    /\ UNCHANGED <<main_window, time_signature_obj, flowable_lines>>

\* music_text.text = value
SetText(value) ==
    /\ music_text # None
    /\ LET resolved == ResolveMusicChars(value)
       IN /\ music_text' = IF resolved = None THEN music_text
                           ELSE MusicTextObject(resolved[1], MusicCharsToStr(resolved[1]))
          /\ ret' = QueryRet("text", "s1", value, resolved)
    /\ StaffFrame
    /\ UNCHANGED <<main_window, time_signature_obj, flowable_lines>>

\* music_text.music_chars = value, value a list of MusicChar
SetMusicChars(value) ==
    /\ music_text # None
    /\ music_text' = MusicTextObject(value, MusicCharsToStr(value))
    /\ ret' = QueryRet("music_chars", "s1", TextValue("list", "", None, <<>>), Some(value))
    /\ StaffFrame
    /\ UNCHANGED <<main_window, time_signature_obj, flowable_lines>>

MusicTextNext ==
    \/ \E text \in TextValues : NewMusicText(text)
    \/ \E value \in TextValues : SetText(value)
    \/ \E value \in MusicCharLists : SetMusicChars(value)

MusicTextSpec == Init /\ [][MusicTextNext]_vars

\* C22: the text of a MusicText is the codepoints of its music_chars, in
\* order, whatever was assigned to text and music_chars.
C22_TextInSyncWithMusicChars ==
    music_text # None
        => /\ Len(music_text[1].text) = Len(music_text[1].music_chars)
           /\ \A i \in 1 .. Len(music_text[1].text) :
                  music_text[1].text[i] = Codepoint(music_text[1].music_chars[i])

\* C22 witness: text was set from a list of a glyph name and a tuple after
\* the object held other characters, and the object now holds the two
\* characters of the list.
C22_Witness ==
    /\ ret.op = "text"
    /\ ~ret.raised
    /\ ret.arg.tag = "list"
    /\ music_text # None
    /\ music_text[1].text = <<"\\ue260", "\\uf400">>
    /\ music_text[1].music_chars = <<MusicChar("accidentalFlat", None), MusicChar("brace", Some(1))>>

\* -------------------------------------------------------------------- Page

\* The widest margin and gutter of a paper.
MaxMargin == 3

\* DirectionX
PageSides == {"LEFT", "RIGHT"}

\* A page as constructed: the side it lies on and the margins and gutter of
\* its paper.  Pages are created by the document and not manipulated.
Pages ==
    {[page_side |-> side, margin_left |-> ml, margin_right |-> mr, gutter |-> g] :
        side \in PageSides, ml \in 0 .. MaxMargin, mr \in 0 .. MaxMargin,
        g \in 0 .. MaxMargin}

\* Page.bounding_rect.x
BoundingRectX(page) ==
    IF page.page_side = "RIGHT"
    THEN 0 - (page.gutter + page.margin_left)
    ELSE 0 - page.margin_left

\* Page.full_margin_left
FullMarginLeft(page) ==
    IF page.page_side = "RIGHT"
    THEN page.margin_left + page.gutter
    ELSE page.margin_left

\* Mutant of FullMarginRight: the gutter is added on either side.
FullMarginRight_GutterOnBothSides(page) == page.margin_right + page.gutter

\* Page.full_margin_right
FullMarginRight(page) ==
    IF page.page_side = "RIGHT"
    THEN page.margin_right
    ELSE page.margin_right + page.gutter

PageInit ==
    /\ children = [s \in Staves |-> <<>>]
    /\ created = 0
    /\ staff_flowable_x = [s \in Staves |-> 0]
    /\ clef_x_positions = [s \in Staves |-> Unset]
    /\ key_signature_x_positions = [s \in Staves |-> Unset]
    /\ time_signature_x_positions = [s \in Staves |-> Unset]
    /\ fringe_layouts = [s \in Staves |-> NoLayouts]
    /\ staves = <<>>
    /\ fringe_layout_cache = [k \in Staves \X Locations |-> None]
    /\ margin_controllers = <<>>
    /\ OthersInit
    /\ ret \in {QueryRet("page", "s1", page, Some(page)) : page \in Pages}

\* page.full_margin_left, page.full_margin_right and page.bounding_rect.x
ReadPageMargins ==
    /\ ret.op = "page"
    /\ ret' = QueryRet("margins", "s1", ret.arg,
                       Some([full_margin_left |-> FullMarginLeft(ret.arg),
                             full_margin_right |-> FullMarginRight(ret.arg),
                             bounding_rect_x |-> BoundingRectX(ret.arg)]))
    /\ StaffFrame
    /\ UNCHANGED others

PageNext == ReadPageMargins

PageSpec == PageInit /\ [][PageNext]_vars

\* C23: the gutter is part of the full left margin on a RIGHT page and of
\* the full right margin otherwise, so the two full margins add up to both
\* margins and the gutter, and the bounding rect starts at minus the full
\* left margin.
C23_GutterInOneFullMargin ==
    ret.op = "margins"
        => LET page == ret.arg
               out == ret.out[1]
           IN /\ page.page_side = "RIGHT"
                    => /\ out.full_margin_left = page.margin_left + page.gutter
                       /\ out.full_margin_right = page.margin_right
              /\ page.page_side # "RIGHT"
                    => /\ out.full_margin_left = page.margin_left
                       /\ out.full_margin_right = page.margin_right + page.gutter
              /\ out.full_margin_left + out.full_margin_right
                    = page.margin_left + page.margin_right + page.gutter
              /\ out.bounding_rect_x = 0 - out.full_margin_left

\* C23 witness: the margins of a RIGHT page with a gutter were read, and the
\* gutter went to the left.
C23_Witness ==
    /\ ret.op = "margins"
    /\ ret.arg.page_side = "RIGHT"
    /\ ret.arg.gutter > 0
    /\ ret.out[1].full_margin_left > ret.arg.margin_left
    /\ ret.out[1].full_margin_right = ret.arg.margin_right

\* -------------------------------------------------------------- MainWindow

\* How often show() is called, the longest delay a refresh function asks
\* for (in steps of 1 / StepsPerSecond seconds), and the latest start time.
MaxShows == 2
MaxDelaySteps == 5
MaxTime == 1

\* Delays are multiples of half a millisecond.
StepsPerSecond == 2000
MsPerSecond == 1000

\* The delay in seconds a refresh function returns.
DelaysInSeconds == {[num |-> k, den |-> StepsPerSecond] : k \in 0 .. MaxDelaySteps}

\* int(requested_delay_s * 1000)
RequestedDelayMs(requested_delay_s) ==
    (requested_delay_s.num * MsPerSecond) \div requested_delay_s.den

\* Calls made on collaborators: QTimer.singleShot, refresh_func, and
\* graphicsView.viewport().update().
Call(name, arg) == [name |-> name, arg |-> arg]

\* The window: refresh_func (None, or a function returning a delay), the
\* delays of the single-shot timers not fired yet, how often show() was
\* called, and whether a refresh ran with no refresh_func since the last
\* show().
Window(refresh_func, pending, shows, stopped) ==
    Some([refresh_func |-> refresh_func, pending |-> pending, shows |-> shows,
          stopped |-> stopped])

RemoveAt(seq, i) == SubSeq(seq, 1, i - 1) \o SubSeq(seq, i + 1, Len(seq))

\* MainWindow()
NewMainWindow ==
    /\ main_window = None
    /\ main_window' = Window(None, <<>>, 0, FALSE)
    /\ ret' = QueryRet("MainWindow", "s1", None, Some(<<>>))
    /\ StaffFrame
    /\ UNCHANGED <<music_text, time_signature_obj, flowable_lines>>

\* main_window.refresh_func = value
SetRefreshFunc(value) ==
    /\ main_window # None
    /\ main_window' = Some([main_window[1] EXCEPT !.refresh_func = value])
    /\ ret' = QueryRet("refresh_func", "s1", value, Some(<<>>))
    /\ StaffFrame
    /\ UNCHANGED <<music_text, time_signature_obj, flowable_lines>>

\* main_window.show()
Show ==
    /\ main_window # None
    /\ main_window[1].shows < MaxShows
    /\ main_window' = Some([main_window[1] EXCEPT !.pending = Append(@, 0),
                                                  !.shows = @ + 1,
                                                  !.stopped = FALSE])
    /\ ret' = QueryRet("show", "s1", None, Some(<<Call("singleShot", Some(0))>>))
    /\ StaffFrame
    /\ UNCHANGED <<music_text, time_signature_obj, flowable_lines>>

\* The calls one refresh makes, in order, for a refresh function and a
\* start time.
RefreshCalls(refresh_func, start_time) ==
    IF refresh_func # None
    THEN <<Call("refresh_func", Some(start_time)),
           Call("singleShot", Some(RequestedDelayMs(refresh_func[1]))),
           Call("update", None)>>
    ELSE <<Call("update", None)>>

\* Mutant of Refresh: the viewport is updated only when a refresh function is
\* set.
Refresh_UpdatesOnlyWithFunc(i, start_time) ==
    /\ main_window # None
    /\ i \in 1 .. Len(main_window[1].pending)
    /\ LET window == main_window[1]
           calls == IF window.refresh_func # None
                    THEN RefreshCalls(window.refresh_func, start_time)
                    ELSE <<>>
           fired == RemoveAt(window.pending, i)
       IN /\ main_window' =
                 Window(window.refresh_func,
                        IF window.refresh_func # None
                        THEN Append(fired, RequestedDelayMs(window.refresh_func[1]))
                        ELSE fired,
                        window.shows,
                        window.stopped \/ window.refresh_func = None)
          /\ ret' = QueryRet("refresh", "s1",
                             [start_time |-> start_time, refresh_func |-> window.refresh_func],
                             Some(calls))
    /\ StaffFrame
    /\ UNCHANGED <<music_text, time_signature_obj, flowable_lines>>

\* Mutant of Refresh: the next refresh is scheduled whether or not a
\* refresh function is set (with no delay when there is none).
Refresh_AlwaysRearms(i, start_time) ==
    /\ main_window # None
    /\ i \in 1 .. Len(main_window[1].pending)
    /\ LET window == main_window[1]
           calls == IF window.refresh_func # None
                    THEN RefreshCalls(window.refresh_func, start_time)
                    ELSE <<Call("singleShot", Some(0)), Call("update", None)>>
           fired == RemoveAt(window.pending, i)
       IN /\ main_window' =
                 Window(window.refresh_func,
                        IF window.refresh_func # None
                        THEN Append(fired, RequestedDelayMs(window.refresh_func[1]))
                        ELSE Append(fired, 0),
                        window.shows,
                        window.stopped \/ window.refresh_func = None)
          /\ ret' = QueryRet("refresh", "s1",
                             [start_time |-> start_time, refresh_func |-> window.refresh_func],
                             Some(calls))
    /\ StaffFrame
    /\ UNCHANGED <<music_text, time_signature_obj, flowable_lines>>

\* The i-th pending single-shot timer fires and MainWindow.refresh runs, at
\* time start_time.
Refresh(i, start_time) ==
    /\ main_window # None
    /\ i \in 1 .. Len(main_window[1].pending)
    /\ LET window == main_window[1]
           calls == RefreshCalls(window.refresh_func, start_time)
           fired == RemoveAt(window.pending, i)
       IN /\ main_window' =
                 Window(window.refresh_func,
                        IF window.refresh_func # None
                        THEN Append(fired, RequestedDelayMs(window.refresh_func[1]))
                        ELSE fired,
                        window.shows,
                        window.stopped \/ window.refresh_func = None)
          /\ ret' = QueryRet("refresh", "s1",
                             [start_time |-> start_time, refresh_func |-> window.refresh_func],
                             Some(calls))
    /\ StaffFrame
    /\ UNCHANGED <<music_text, time_signature_obj, flowable_lines>>

WindowNext ==
    \/ NewMainWindow
    \/ \E value \in {None} \cup {Some(d) : d \in DelaysInSeconds} : SetRefreshFunc(value)
    \/ Show
    \/ \E i \in 1 .. MaxShows, start_time \in 0 .. MaxTime : Refresh(i, start_time)

WindowSpec == Init /\ [][WindowNext]_vars

\* The positions in a sequence of calls of the calls with a name.
CallsOf(calls, name) == {k \in 1 .. Len(calls) : calls[k].name = name}

\* C24: every refresh updates the viewport exactly once, as the last thing
\* it does; with a refresh function set the function is called exactly
\* once, before the update, with the start time of the refresh, and with
\* none set it is not called.
C24_RefreshUpdatesViewportOnce ==
    ret.op = "refresh"
        => LET calls == ret.out[1]
           IN /\ Cardinality(CallsOf(calls, "update")) = 1
              /\ calls[Len(calls)].name = "update"
              /\ IF ret.arg.refresh_func # None
                 THEN /\ Cardinality(CallsOf(calls, "refresh_func")) = 1
                      /\ \A k \in CallsOf(calls, "refresh_func") :
                             /\ calls[k].arg = Some(ret.arg.start_time)
                             /\ \A u \in CallsOf(calls, "update") : k < u
                 ELSE CallsOf(calls, "refresh_func") = {}

\* C24 witness: a refresh ran with a refresh function set, at a start time
\* other than zero, and made its three calls.
C24_Witness ==
    /\ ret.op = "refresh"
    /\ ret.arg.refresh_func # None
    /\ ret.arg.start_time = MaxTime
    /\ Len(ret.out[1]) = 3

\* What show() and refresh schedule: show() one refresh with no delay, a
\* refresh with a refresh function one refresh after the returned delay in
\* whole milliseconds, a refresh without one nothing.
SchedulesAsDescribed ==
    /\ ret.op = "show"
         => ret.out[1] = <<Call("singleShot", Some(0))>>
    /\ (ret.op = "refresh" /\ ret.arg.refresh_func # None)
         => /\ Cardinality(CallsOf(ret.out[1], "singleShot")) = 1
            /\ \A k \in CallsOf(ret.out[1], "singleShot") :
                   ret.out[1][k].arg[1] * ret.arg.refresh_func[1].den
                       <= ret.arg.refresh_func[1].num * 1000
                   /\ ret.arg.refresh_func[1].num * 1000
                       < (ret.out[1][k].arg[1] + 1) * ret.arg.refresh_func[1].den
    /\ (ret.op = "refresh" /\ ret.arg.refresh_func = None)
         => CallsOf(ret.out[1], "singleShot") = {}
    /\ (main_window # None /\ main_window[1].shows = 1)
         => Len(main_window[1].pending) <= 1

\* C25 as stated: besides, once a refresh ran with no refresh function, no
\* refresh is pending (so none runs) until show() is called again.
C25_LoopRearmsThroughRefreshFunc_AsStated ==
    /\ SchedulesAsDescribed
    /\ (main_window # None /\ main_window[1].stopped)
         => main_window[1].pending = <<>>

\* C25 amended: show() and refresh schedule as described; after a single
\* show() at most one refresh is pending, and once a refresh ran there
\* with no refresh function, none is pending (so none runs, even if a
\* refresh function is set later) until show() is called again.  After
\* several show() calls as many refreshes may be pending, and a refresh
\* with no refresh function ends only its own chain.
C25_LoopRearmsThroughRefreshFunc ==
    /\ SchedulesAsDescribed
    /\ (main_window # None /\ main_window[1].stopped /\ main_window[1].shows = 1)
         => main_window[1].pending = <<>>
    /\ main_window # None => Len(main_window[1].pending) <= main_window[1].shows

\* C25 witness: after a single show() a refresh ran with no refresh
\* function, a refresh function was set afterwards, and nothing is pending.
C25_Witness ==
    /\ main_window # None
    /\ main_window[1].shows = 1
    /\ main_window[1].stopped
    /\ main_window[1].refresh_func # None
    /\ main_window[1].pending = <<>>
    /\ ret.op = "refresh_func"

\* ------------------------------------------------- rendering a broken staff

\* The longest line of a flowable, and how many of its first lines vary in
\* length.
MaxLineLength == 3
VariedLines == 2

\* The contiguous lines of the given lengths, the first starting at
\* flowable_x.
RECURSIVE LinesFrom(_, _)
LinesFrom(lengths, flowable_x) ==
    IF lengths = <<>> THEN <<>>
    ELSE <<Line(flowable_x, Head(lengths))>>
         \o LinesFrom(Tail(lengths), flowable_x + Head(lengths))

\* The line lists of a broken flowable: contiguous lines from 0, the first
\* VariedLines of any length up to MaxLineLength, then full lines to beyond
\* the end of every staff.
FlowableLineLists ==
    {LinesFrom(lengths \o [i \in 1 .. ((MaxStaffX + StaffLength) \div MaxLineLength + 1)
                              |-> MaxLineLength], 0) :
        lengths \in [1 .. VariedLines -> 1 .. MaxLineLength]}

\* Where a line ends on the timeline.
LineEnd(line) == line.flowable_x + line.length

\* flowable.last_break_index_at(flowable_x): the line a position lies on.
LastBreakIndexAt(flowable_x) ==
    Max({i \in 1 .. Len(flowable_lines) : flowable_lines[i].flowable_x <= flowable_x})

\* The line an extent that starts on line first_line_i ends within: the
\* first one it does not continue past the end of.
LineEndedWithin(first_line_i, end_x) ==
    Min({i \in first_line_i .. Len(flowable_lines) : end_x <= LineEnd(flowable_lines[i])})

\* self._fringe_layouts.get(location)
CachedStaffLayout(s, location) ==
    IF location \in DOMAIN fringe_layouts[s] THEN fringe_layouts[s][location] ELSE None

\* Staff.fringe_layout_at(flowable_line) as render_slice calls it: the
\* cached layout of the line, or the one computed at the line's position
\* in the staff.
LayoutForLine(s, line) ==
    IF CachedStaffLayout(s, Some(line.flowable_x)) # None
    THEN CachedStaffLayout(s, Some(line.flowable_x))[1]
    ELSE StaffLayoutAtPos(s, children[s], line.flowable_x - staff_flowable_x[s])

\* What one render_slice call draws: the slice length it works with and the
\* ends of the staff segment path created at pos.x + fringe_layout.staff
\* with length slice_length - fringe_layout.staff.
Slice(op, line, pos_x, slice_length, fringe_staff) ==
    [op |-> op, line |-> line, pos_x |-> pos_x, slice_length |-> slice_length,
     fringe_staff |-> fringe_staff,
     segment_start |-> pos_x + fringe_staff,
     segment_end |-> (pos_x + fringe_staff) + (slice_length - fringe_staff)]

\* Staff.render_slice(pos, clip_start_x, clip_width, flowable_line)
RenderSlice(s, op, pos_x, clip_start_x, clip_width, flowable_line) ==
    LET fringe_layout == LayoutForLine(s, flowable_line)
        slice_length == IF clip_width = None
                        THEN (IF clip_start_x = None THEN StaffLength
                              ELSE StaffLength - clip_start_x[1])
                        ELSE clip_width[1]
    IN Slice(op, flowable_line, pos_x, slice_length, fringe_layout.staff)

\* Staff.render_complete(pos, flowable_line, flowable_x)
RenderComplete(s, pos_x, flowable_line) ==
    RenderSlice(s, "render_complete", pos_x, None, None, flowable_line)

\* Mutant of RenderBeforeBreak: the slice is given the length of the whole
\* line, wherever on the line the staff starts.
RenderBeforeBreak_WholeLine(s, pos_x, flowable_line, flowable_x) ==
    RenderSlice(s, "render_before_break", pos_x, Some(0),
                Some(flowable_line.length), flowable_line)

\* Staff.render_before_break(pos, flowable_line, flowable_x)
RenderBeforeBreak(s, pos_x, flowable_line, flowable_x) ==
    RenderSlice(s, "render_before_break", pos_x, Some(0),
                Some(flowable_line.flowable_x + flowable_line.length - flowable_x),
                flowable_line)

\* Staff.render_spanning_continuation(pos, flowable_line, object_x)
RenderSpanningContinuation(s, pos_x, flowable_line, object_x) ==
    RenderSlice(s, "render_spanning_continuation", pos_x, Some(object_x),
                Some(flowable_line.length), flowable_line)

\* Staff.render_after_break(pos, flowable_line, object_x)
RenderAfterBreak(s, pos_x, flowable_line, object_x) ==
    RenderSlice(s, "render_after_break", pos_x, Some(object_x), None, flowable_line)

\* The dispatch of a breakable object over the lines its extent meets:
\* complete when the extent fits within the line it starts on; else
\* before-break on that line, spanning-continuation on every later line the
\* extent continues past and after-break on the line it ends within. The
\* first slice is drawn at the staff's place on its line, the later ones
\* from their line's origin, with the staff-relative start of the line as
\* object_x.
RenderedSlices(s) ==
    LET flowable_x == staff_flowable_x[s]
        first_line_i == LastBreakIndexAt(flowable_x)
        last_line_i == LineEndedWithin(first_line_i, flowable_x + StaffLength)
        pos_x == flowable_x - flowable_lines[first_line_i].flowable_x
    IN IF first_line_i = last_line_i
       THEN <<RenderComplete(s, pos_x, flowable_lines[first_line_i])>>
       ELSE [n \in 1 .. (last_line_i - first_line_i + 1) |->
                LET line == flowable_lines[first_line_i + n - 1]
                IN IF n = 1
                   THEN RenderBeforeBreak(s, pos_x, line, flowable_x)
                   ELSE IF first_line_i + n - 1 < last_line_i
                   THEN RenderSpanningContinuation(s, 0, line, line.flowable_x - flowable_x)
                   ELSE RenderAfterBreak(s, 0, line, line.flowable_x - flowable_x)]

\* The lines a staff is drawn on.
RenderedLocations(s) ==
    {Some(flowable_lines[k].flowable_x) :
        k \in LastBreakIndexAt(staff_flowable_x[s])
                .. LineEndedWithin(LastBreakIndexAt(staff_flowable_x[s]),
                                   staff_flowable_x[s] + StaffLength)}

\* The staff is rendered: one slice per line it lies on, each asking
\* fringe_layout_at for its line, which stores the layouts it computes.
RenderStaff(s) ==
    /\ flowable_lines # <<>>
    /\ LET computed == {location \in RenderedLocations(s) :
                           CachedStaffLayout(s, location) = None}
       IN /\ fringe_layouts' =
                 [fringe_layouts EXCEPT ![s] =
                     [location \in DOMAIN @ \cup RenderedLocations(s) |->
                         IF location \in computed
                         THEN Some(StaffLayoutAtPos(s, children[s],
                                                    location[1] - staff_flowable_x[s]))
                         ELSE @[location]]]
          /\ IF computed # {}
             THEN /\ clef_x_positions' = ClefsAfterRead({s}, children)
                  /\ key_signature_x_positions' = KeySignaturesAfterRead({s}, children)
                  /\ time_signature_x_positions' = TimeSignaturesAfterRead({s}, children)
             ELSE UNCHANGED <<clef_x_positions, key_signature_x_positions,
                              time_signature_x_positions>>
    /\ ret' = QueryRet("render_staff", s, staff_flowable_x[s], Some(RenderedSlices(s)))
    /\ UNCHANGED <<others, children, created, staff_flowable_x, staves,
                   fringe_layout_cache, margin_controllers>>

SliceNext ==
    \/ \E s \in Solo : RenderStaff(s)
    \/ \E s \in Solo, x \in Positions, w \in Widths : AddClef(s, x, w)
    \/ \E s \in Solo, x \in Positions, w \in Widths : AddKeySignature(s, x, w)
    \/ \E s \in Solo, x \in Positions, w \in Widths : AddTimeSignature(s, x, w)

\* A staff in a flowable that was broken into lines.
SliceInit == StaffInit /\ ObjectsInit /\ flowable_lines \in FlowableLineLists

SliceSpec == SliceInit /\ [][SliceNext]_vars

RECURSIVE SumOfSliceLengths(_)
SumOfSliceLengths(slices) ==
    IF slices = <<>> THEN 0
    ELSE Head(slices).slice_length + SumOfSliceLengths(Tail(slices))

\* C26: when a staff is drawn on two or more lines, the first slice is as
\* long as from the staff's start to the end of its line, each slice
\* between as long as its line, and the last as long as the staff less
\* the staff-relative start of its line; the slice lengths add up to the
\* staff's length; and every segment starts at pos.x + fringe.staff and
\* ends at pos.x + the slice length.
C26_SlicesCoverStaffLength ==
    (ret.op = "render_staff" /\ Len(ret.out[1]) >= 2)
        => LET slices == ret.out[1]
               staff_x == ret.arg
           IN /\ slices[1].op = "render_before_break"
              /\ slices[1].slice_length
                   = slices[1].line.flowable_x + slices[1].line.length - staff_x
              /\ \A n \in 2 .. (Len(slices) - 1) :
                     /\ slices[n].op = "render_spanning_continuation"
                     /\ slices[n].slice_length = slices[n].line.length
              /\ slices[Len(slices)].op = "render_after_break"
              /\ slices[Len(slices)].slice_length
                   = StaffLength - (slices[Len(slices)].line.flowable_x - staff_x)
              /\ SumOfSliceLengths(slices) = StaffLength
              /\ \A n \in 1 .. Len(slices) :
                     /\ slices[n].segment_start = slices[n].pos_x + slices[n].fringe_staff
                     /\ slices[n].segment_end = slices[n].pos_x + slices[n].slice_length

\* C26 witness: a staff with a clef that starts part-way along a line and
\* ends part-way along a later one was drawn on three lines or more: its
\* first slice is shorter than its line and drawn right of the line's
\* origin, one line is spanned, the last slice is shorter than its line, and
\* the fringe reaches left of the spanning slice.
C26_Witness ==
    /\ ret.op = "render_staff"
    /\ Len(ret.out[1]) >= 3
    /\ children[ret.staff] # <<>>
    /\ ret.out[1][1].pos_x > 0
    /\ ret.out[1][1].slice_length < ret.out[1][1].line.length
    /\ ret.out[1][2].op = "render_spanning_continuation"
    /\ ret.out[1][2].segment_start < ret.out[1][2].pos_x
    /\ ret.out[1][Len(ret.out[1])].slice_length > 0
    /\ ret.out[1][Len(ret.out[1])].slice_length
           < ret.out[1][Len(ret.out[1])].line.length

\* ------------------------------------------- registering margin controllers

\* One staff in a flowable is built up (modifiers added, its indices read),
\* then the layout pass calls its pre_render_hook once.
HookNext ==
    \/ margin_controllers = <<>> /\ \E s \in Solo : ReadClefs(s)
    \/ margin_controllers = <<>> /\ \E s \in Solo : ReadKeySignatures(s)
    \/ margin_controllers = <<>>
       /\ \E s \in Solo, x \in Positions, w \in Widths : AddClef(s, x, w)
    \/ margin_controllers = <<>>
       /\ \E s \in Solo, x \in Positions, w \in Widths : AddKeySignature(s, x, w)
    \/ margin_controllers = <<>> /\ \E s \in Solo : PreRenderHook(s)

HookSpec == Init /\ [][HookNext]_vars

\* The number of registered controllers equal to c.
ControllersEqualTo(c) ==
    Cardinality({i \in 1 .. Len(margin_controllers) : margin_controllers[i] = c})

\* The number of registered controllers with the given tag.
ControllersTagged(tag) ==
    Cardinality({i \in 1 .. Len(margin_controllers) : margin_controllers[i].tag = tag})

\* The number of clefs attached to the staff at x with bounding width w.
ClefsAttachedAt(s, x, w) ==
    Cardinality({i \in 1 .. Len(children[s]) :
                    /\ children[s][i].kind = "clef"
                    /\ children[s][i].x = x
                    /\ children[s][i].w = w})

\* C27: once pre_render_hook has run on a staff in a flowable, the flowable
\* holds exactly one neoscore_clef controller per clef attached to the staff,
\* at the staff's flowable x plus the clef's x and of the clef's bounding
\* width, together with one neoscore_staff controller and one controller per
\* key signature, whatever was read or added before the hook ran.
C27_OneClefControllerPerAttachedClef ==
    \A s \in Solo :
        margin_controllers # <<>> =>
            /\ ControllersTagged("neoscore_staff") = 1
            /\ ControllersTagged("neoscore_clef")
                   = Len(DescendantsOfKind(children[s], "clef"))
            /\ ControllersTagged("neoscore_key_signature")
                   = Len(DescendantsOfKind(children[s], "key_signature"))
            /\ \A x \in Positions, w \in Widths :
                   ControllersEqualTo(MarginController(staff_flowable_x[s] + x, w,
                                                       "neoscore_clef"))
                       = ClefsAttachedAt(s, x, w)

\* ------------------------------------------------------------ TimeSignature

MaxGlyphs == 2
MaxAssignments == 2

\* The bounding width of one digit glyph of the music font.
GlyphWidth == 2

\* A meter, by the number of glyphs of its upper and of its lower text.
Meters == [upper : 1 .. MaxGlyphs, lower : 0 .. MaxGlyphs]

\* Where a time signature is: at a staff position, or under a parent that is
\* in no staff.
Places == {None} \cup {Some(x) : x \in Positions}

\* MusicText.bounding_rect.width of a text of n glyphs.
TextWidth(n) == n * GlyphWidth

\* staff.fringe_layout_at(None).time_signature for a staff whose time
\* signature at position 0 has the given visual width.
TimeSignatureFringePos(visual_width) ==
    FringeLayoutAtStaffPosX(<<>>, <<>>, <<[x |-> 0, w |-> visual_width]>>, 0)
        .time_signature[1]

\* TimeSignature._position_glyphs, horizontal part.
PositionGlyphs(ts) ==
    LET upper_width == TextWidth(ts.meter.upper)
        lower_width == TextWidth(ts.meter.lower)
        visual_width == IF upper_width > lower_width THEN upper_width
                        ELSE IF lower_width > upper_width THEN lower_width
                        ELSE upper_width
        upper_x == IF upper_width > lower_width THEN 0
                   ELSE IF lower_width > upper_width
                        THEN ts.upper_x + (lower_width - upper_width) \div 2
                        ELSE ts.upper_x
        lower_x == IF upper_width > lower_width
                   THEN ts.lower_x + (upper_width - lower_width) \div 2
                   ELSE IF lower_width > upper_width THEN 0
                        ELSE ts.lower_x
        x_offset == IF ts.place = Some(0)
                    THEN TimeSignatureFringePos(visual_width) ELSE 0
    IN [ts EXCEPT !.visual_width = visual_width,
                  !.upper_x = upper_x + x_offset,
                  !.lower_x = lower_x + x_offset]

\* TimeSignature(pos_x, parent, meter): both texts are created at x = 0.
TimeSignature(place, meter) ==
    PositionGlyphs([place |-> place, meter |-> meter, upper_x |-> 0, lower_x |-> 0,
                    visual_width |-> 0, assignments |-> 0])

NewTimeSignature(place, meter) ==
    /\ time_signature_obj = <<>>
    /\ time_signature_obj' = Some(TimeSignature(place, meter))
    /\ ret' = NoRet
    /\ StaffFrame
    /\ UNCHANGED <<music_text, main_window, flowable_lines>>

\* time_signature.meter = value
SetMeter(value) ==
    /\ time_signature_obj # <<>>
    /\ time_signature_obj[1].assignments < MaxAssignments
    /\ time_signature_obj' = Some(PositionGlyphs([time_signature_obj[1] EXCEPT
                                           !.meter = value,
                                           !.assignments = @ + 1]))
    /\ ret' = NoRet
    /\ StaffFrame
    /\ UNCHANGED <<music_text, main_window, flowable_lines>>

TimeSignatureNext ==
    \/ \E place \in Places, meter \in Meters : NewTimeSignature(place, meter)
    \/ \E value \in Meters : SetMeter(value)

TimeSignatureSpec == Init /\ [][TimeSignatureNext]_vars

\* C28: after meter was assigned, the x positions of the upper and of the
\* lower text and visual_width are those of a time signature newly
\* constructed with that meter at the same place; so assigning the current
\* meter once more changes none of them.
C28_MeterAssignmentRepositionsAsNew ==
    time_signature_obj # <<>> /\ time_signature_obj[1].assignments > 0 =>
        LET ts == time_signature_obj[1]
            new == TimeSignature(ts.place, ts.meter)
        IN /\ ts.upper_x = new.upper_x
           /\ ts.lower_x = new.lower_x
           /\ ts.visual_width = new.visual_width

\* ---------------------------------------------------- order of the edges

\* The edges a layout records, from the staff's edge rightwards to the zero
\* origin.
RecordedEdges(layout) ==
    SelectSeq(<<Some(layout.staff), layout.clef, layout.key_signature,
                layout.time_signature, Some(0)>>,
              LAMBDA edge : edge # None)

\* C29: in every layout that Staff.fringe_layout_at or
\* StaffGroup.fringe_layout_at returns, the recorded edges are ordered
\* staff <= clef <= key_signature <= time_signature <= 0, and the staff edge
\* is strictly negative.
C29_EdgesOrderedRightToLeft ==
    ret.op \in {"fringe_layout_at", "group_fringe_layout_at"} /\ ret.out # None =>
        LET edges == RecordedEdges(ret.out[1])
        IN /\ ret.out[1].staff < 0
           /\ \A i \in 1 .. Len(edges) - 1 : edges[i][1] <= edges[i + 1][1]

\* ------------------------------------------------ margins and fringes

\* The tags of the controllers a staff registers.
StaffLayerKeys == {"neoscore_staff", "neoscore_clef", "neoscore_key_signature",
                   "neoscore_time_signature"}

\* One layout pass over a staff in a flowable: the staff is built up, its
\* pre_render_hook registers the margin controllers, then the staff is asked
\* for the fringe layouts of the lines.
LayoutPassNext ==
    \/ margin_controllers = <<>> /\ \E s \in Solo : ReadClefs(s)
    \/ margin_controllers = <<>>
       /\ \E s \in Solo, x \in Positions, w \in Widths : AddClef(s, x, w)
    \/ margin_controllers = <<>>
       /\ \E s \in Solo, x \in Positions, w \in Widths : AddKeySignature(s, x, w)
    \/ margin_controllers = <<>>
       /\ \E s \in Solo, x \in Positions, w \in Widths : AddTimeSignature(s, x, w)
    \/ margin_controllers = <<>> /\ \E s \in Solo : PreRenderHook(s)
    \/ margin_controllers # <<>> /\ \E s \in Solo, l \in Lines : FringeLayoutAt(s, l)

LayoutPassSpec == Init /\ [][LayoutPassNext]_vars

\* C30: the margins of the controllers a staff registered that are active
\* at a line's start add up to minus the staff edge of the layout
\* Staff.fringe_layout_at returns for that line.
C30_MarginsMatchFringe ==
    margin_controllers # <<>> /\ ret.op = "fringe_layout_at" /\ ret.out # None =>
        MarginSum(margin_controllers, StaffLayerKeys, ret.location[1])
            = 0 - ret.out[1].staff
====
